---- MODULE Spec2Model ----
(***************************************************************************)
(* Verification model of the live trading pipeline:                        *)
(*   scanner/bar_aggregator.py            BarAggregator                    *)
(*   scanner/live_trading_orchestrator.py LiveTradingOrchestrator          *)
(*   scanner/databento_live_feed.py       DatabentoLiveFeed (start, stop)  *)
(*   execution/rate_limiter.py            RateLimiter                      *)
(*   execution/crosstrade_client.py       CrossTradeClient                 *)
(*   execution/order_manager.py           OrderManager                     *)
(*   execution/signal_translator.py       SignalTranslator                 *)
(*                                                                         *)
(* Timestamps are whole minutes since an epoch that lies on the top of an  *)
(* hour: minute-of-hour is t % 60 and the hour is t \div 60.  Python's     *)
(* None is the empty sequence <<>> and a present value x is <<x>>.         *)
(***************************************************************************)
EXTENDS Integers, Sequences, FiniteSets, TLC

VARIABLES
    agg,          \* the BarAggregator under test (SpecAgg, SpecAggRun)
    agg_call,     \* the last add_bar call: its bar, return value, raised flag
    run_start,    \* timestamp of the first bar of the consecutive run (SpecAggRun)
    run_n,        \* bars fed in the consecutive run (SpecAggRun)
    run_recent,   \* the last (up to period_minutes) bars of that run
    run_emitted,  \* completed bars returned during that run
    run_first,    \* 1-based index of the call that returned the first completed bar (0: none yet)
    agg_late,     \* a second BarAggregator, created while the stream runs (SpecRestart; None or Some)
    agg_late_call, \* its last add_bar result, its first bar and the first bar of the current bucket
    orch,         \* the LiveTradingOrchestrator (SpecOrch)
    orch_trace,   \* what the last on_1min_bar call did, in order
    rl,           \* the RateLimiter (SpecRL)
    clock,        \* what time.time() returns now, in ticks
    rl_call,      \* the last rate-limiter call: operation, tokens asked, result
    rl_wait,      \* the wait_for_token call in progress (None or Some)
    rl_scen,      \* monitor of the burst scenario: phase, start time, acquires counted
    translator,   \* the SignalTranslator with its OrderManager and client (SpecExec)
    venue_seq,    \* the orderId the venue gives to the next order it accepts
    exec_call,    \* the last execution call: arguments, venue reports, calls made, result
    api_client,   \* the CrossTradeClient with its rate limiter (SpecClient)
    client_now,   \* what time.time() returns to the client, in tenths of a second
    client_call,  \* the client call in progress or just finished: requests made, result
    rl_threads,   \* the threads that call the RateLimiter (SpecThreads): position, locals
    rl_lock,      \* the thread that holds self.lock (None or Some)
    rl_granted    \* tokens granted to the threads so far

aggVars == <<agg, agg_call, run_start, run_n, run_recent, run_emitted, run_first,
            agg_late, agg_late_call>>

orchVars == <<orch, orch_trace>>

rlVars == <<rl, clock, rl_call, rl_wait, rl_scen>>

execVars == <<translator, venue_seq, exec_call>>

clientVars == <<api_client, client_now, client_call>>

thVars == <<rl_threads, rl_lock, rl_granted>>

vars == <<agg, agg_call, run_start, run_n, run_recent, run_emitted, run_first,
          agg_late, agg_late_call,
          orch, orch_trace, rl, clock, rl_call, rl_wait, rl_scen,
          translator, venue_seq, exec_call, api_client, client_now, client_call,
          rl_threads, rl_lock, rl_granted>>

\* values of the variables of a component that a specification does not use
AggUnused ==
    /\ agg = <<>>
    /\ agg_call = <<>>
    /\ run_start = 0
    /\ run_n = 0
    /\ run_recent = <<>>
    /\ run_emitted = 0
    /\ run_first = 0
    /\ agg_late = <<>>
    /\ agg_late_call = <<>>

OrchUnused ==
    /\ orch = <<>>
    /\ orch_trace = <<>>

RLUnused ==
    /\ rl = <<>>
    /\ clock = 0
    /\ rl_call = <<>>
    /\ rl_wait = <<>>
    /\ rl_scen = <<>>

ClientUnused ==
    /\ api_client = <<>>
    /\ client_now = 0
    /\ client_call = <<>>

ExecUnused ==
    /\ translator = <<>>
    /\ venue_seq = 0
    /\ exec_call = <<>>

ThUnused ==
    /\ rl_threads = <<>>
    /\ rl_lock = <<>>
    /\ rl_granted = 0

----------------------------------------------------------------------------
(* Bounds of the model *)

MaxPeriodBars == 3
MinTime == 57
MaxTime == 62
RunLength == 18
OrchMinTime == 58
OrchMaxTime == 60
OrchMaxPeriodBars == 2
MaxClock == 6
MaxTick == 2
MaxAcquire == 2
MaxOrders == 2

\* no client call starts after this time (tenths of a second)
MaxNow == 40

\* SpecSignal: no call starts once the venue has accepted this many orders;
\* the length of a batch of signals; the length of the venue's list of
\* working orders
MaxPlaced == 2
MaxBatch == 2
MaxWorking == 2

\* SpecWait: how often the wall clock is set back during one wait_for_token
MaxSetBacks == 1

\* SpecStarve: the largest number of tokens wait_for_token is called with
StarveMaxTokens == 3

\* SpecThreads: the number of threads; no tick of the clock after this time
NumThreads == 2
ThreadMaxClock == 2

----------------------------------------------------------------------------
(* Generic helpers *)

None == <<>>

Some(x) == <<x>>

IsNone(o) == o = <<>>

Val(o) == o[1]

Max2(a, b) == IF a >= b THEN a ELSE b

Min2(a, b) == IF a <= b THEN a ELSE b

SetMax(S) == CHOOSE x \in S : \A y \in S : y <= x

SetMin(S) == CHOOSE x \in S : \A y \in S : x <= y

RECURSIVE SumVolume(_)
SumVolume(s) == IF s = <<>> THEN 0 ELSE Head(s).volume + SumVolume(Tail(s))

RECURSIVE MaxHigh(_)
MaxHigh(s) == IF Len(s) = 1 THEN s[1].high ELSE Max2(Head(s).high, MaxHigh(Tail(s)))

RECURSIVE MinLow(_)
MinLow(s) == IF Len(s) = 1 THEN s[1].low ELSE Min2(Head(s).low, MinLow(Tail(s)))

----------------------------------------------------------------------------
(* Timeframes: TFs members carry their length in seconds *)

m1 == 60
m2 == 120
m3 == 180
m5 == 300
m7 == 420

Timeframes == {m1, m2, m3, m5, m7}

SecondsPerDay == 86400

is_intraday(tf) == tf < SecondsPerDay

----------------------------------------------------------------------------
(* One-minute bars delivered by the feed *)

Symbols == {"X", "Y"}

BarShapes ==
    { [open |-> 10, high |-> 12, low |-> 9,  close |-> 11, volume |-> 1],
      [open |-> 12, high |-> 13, low |-> 8,  close |-> 9,  volume |-> 3] }

\* the orchestrator only routes bars: one shape is enough there
OrchBarShapes == { [open |-> 10, high |-> 12, low |-> 9, close |-> 11, volume |-> 1] }

MkBar(sym, t, sh) ==
    [symbol |-> sym, date |-> t, date_l |-> t,
     open |-> sh.open, high |-> sh.high, low |-> sh.low, close |-> sh.close,
     volume |-> sh.volume, cpl |-> TRUE]

----------------------------------------------------------------------------
(* BarAggregator *)

BarAggregator(symbol, target_tf) ==
    [symbol |-> symbol, target_tf |-> target_tf,
     current_bar |-> None, period_start |-> None, bars_in_period |-> <<>>]

period_minutes(self) == self.target_tf \div 60

\* timestamp.replace(minute=(minute // period_minutes) * period_minutes, second=0, ...)
_floor_to_period(timestamp, pm) ==
    (timestamp \div 60) * 60 + (((timestamp % 60) \div pm) * pm)

_is_new_period(self, bar_time) ==
    _floor_to_period(bar_time, period_minutes(self))
        # _floor_to_period(Val(self.period_start), period_minutes(self))

_is_period_complete(self, bar_time) == _is_new_period(self, bar_time + 1)

_start_new_period(self, bar) ==
    [self EXCEPT
        !.period_start = Some(bar.date),
        !.current_bar = Some([symbol |-> self.symbol, date |-> bar.date,
                              date_l |-> bar.date_l, open |-> bar.open,
                              high |-> bar.high, low |-> bar.low,
                              close |-> bar.close, volume |-> bar.volume,
                              cpl |-> TRUE]),
        !.bars_in_period = <<bar>>]

\* variant of _add_to_current_period that lacks the new-bucket test
_add_to_current_period_no_bucket_test(self, bar) ==
    IF IsNone(self.current_bar) THEN _start_new_period(self, bar)
    ELSE LET cur == Val(self.current_bar) IN
         [self EXCEPT
            !.current_bar = Some([cur EXCEPT
                                    !.high = Max2(cur.high, bar.high),
                                    !.low = Min2(cur.low, bar.low),
                                    !.close = bar.close,
                                    !.volume = cur.volume + bar.volume,
                                    !.date_l = bar.date_l]),
            !.bars_in_period = Append(self.bars_in_period, bar)]

_add_to_current_period(self, bar) ==
    IF IsNone(self.current_bar) THEN _start_new_period(self, bar)
    ELSE IF _is_new_period(self, bar.date) THEN _start_new_period(self, bar)
    ELSE LET cur == Val(self.current_bar) IN
         [self EXCEPT
            !.current_bar = Some([cur EXCEPT
                                    !.high = Max2(cur.high, bar.high),
                                    !.low = Min2(cur.low, bar.low),
                                    !.close = bar.close,
                                    !.volume = cur.volume + bar.volume,
                                    !.date_l = bar.date_l]),
            !.bars_in_period = Append(self.bars_in_period, bar)]

\* returns the reset aggregator and the completed bar
_complete_period(self) ==
    [self |-> [self EXCEPT !.current_bar = None, !.period_start = None,
                           !.bars_in_period = <<>>],
     ret |-> self.current_bar]

\* variant of add_bar that validates the symbol only after it has started a
\* period with the bar
add_bar_late_symbol_check(self, bar) ==
    IF bar.symbol # self.symbol
    THEN [self |-> _start_new_period(self, bar), ret |-> None, raised |-> TRUE,
          closed |-> <<>>]
    ELSE IF IsNone(self.period_start)
    THEN [self |-> _start_new_period(self, bar), ret |-> None, raised |-> FALSE,
          closed |-> <<>>]
    ELSE LET added == _add_to_current_period(self, bar) IN
         IF _is_period_complete(added, bar.date)
         THEN LET done == _complete_period(added) IN
              [self |-> done.self, ret |-> done.ret, raised |-> FALSE,
               closed |-> added.bars_in_period]
         ELSE [self |-> added, ret |-> None, raised |-> FALSE, closed |-> <<>>]

\* add_bar: the new aggregator state, the returned bar (None or Some) and
\* whether ValueError was raised; closed is bars_in_period as it was when
\* the period was completed (empty when no period was completed)
add_bar(self, bar) ==
    IF bar.symbol # self.symbol
    THEN [self |-> self, ret |-> None, raised |-> TRUE, closed |-> <<>>]
    ELSE IF IsNone(self.period_start)
    THEN [self |-> _start_new_period(self, bar), ret |-> None, raised |-> FALSE,
          closed |-> <<>>]
    ELSE LET added == _add_to_current_period(self, bar) IN
         IF _is_period_complete(added, bar.date)
         THEN LET done == _complete_period(added) IN
              [self |-> done.self, ret |-> done.ret, raised |-> FALSE,
               closed |-> added.bars_in_period]
         ELSE [self |-> added, ret |-> None, raised |-> FALSE, closed |-> <<>>]

get_bars_count(self) == Len(self.bars_in_period)

----------------------------------------------------------------------------
(* SimpleBullishCCIStrategy: a decision unit.  The indicator arithmetic is *)
(* not modelled: whether LiveData accepted the bar, whether the entry      *)
(* conditions hold, and whether the LiveData or indicator update raised,   *)
(* is the input "decide" of on_bar                                         *)

Decisions == {"not_updated", "enter", "no_entry", "raise"}

SimpleBullishCCIStrategy(symbol, config) ==
    [symbol |-> symbol, timeframe |-> m5, bars_to_hold |-> config.bars_held,
     quantity |-> config.quantity, position |-> None, bars_in_position |-> 0]

\* on_bar: the new strategy state, the signal (None or Some) and whether an
\* exception left the call (it has no try block; the exception comes from
\* the LiveData or indicator update, before the position is touched); the
\* field origin of a signal is the symbol label of the bar it was computed
\* from
on_bar(self, bar, decide) ==
    IF bar.symbol # self.symbol THEN [self |-> self, signal |-> None, raised |-> FALSE]
    ELSE IF decide = "raise" THEN [self |-> self, signal |-> None, raised |-> TRUE]
    ELSE IF decide = "not_updated" THEN [self |-> self, signal |-> None, raised |-> FALSE]
    ELSE IF IsNone(self.position)
    THEN IF decide = "enter"
         THEN [self |-> [self EXCEPT !.position = Some("long"), !.bars_in_position = 0],
               signal |-> Some([action |-> "entry", side |-> "long",
                                symbol |-> self.symbol, quantity |-> self.quantity,
                                origin |-> bar.symbol]),
               raised |-> FALSE]
         ELSE [self |-> self, signal |-> None, raised |-> FALSE]
    ELSE IF self.bars_in_position + 1 >= self.bars_to_hold
         THEN [self |-> [self EXCEPT !.position = None, !.bars_in_position = 0],
               signal |-> Some([action |-> "exit", side |-> "none",
                                symbol |-> self.symbol, quantity |-> self.quantity,
                                origin |-> bar.symbol]),
               raised |-> FALSE]
         ELSE [self |-> [self EXCEPT !.bars_in_position = self.bars_in_position + 1],
               signal |-> None, raised |-> FALSE]

----------------------------------------------------------------------------
(* LiveTradingOrchestrator *)

FeedSymbols == {"X", "Y", "Z"}

StrategyConfig(name, enabled, symbols, timeframes, bars_held) ==
    [name |-> name, enabled |-> enabled, symbols |-> symbols,
     timeframes |-> timeframes, bars_held |-> bars_held, quantity |-> 1]

\* the "strategies" section of the configurations the model starts from
Configs ==
    { <<StrategyConfig("cci", TRUE, <<"X", "Y">>, <<m5>>, 1)>>,
      <<StrategyConfig("a", TRUE, <<"X">>, <<m1, m5>>, 2),
        StrategyConfig("b", TRUE, <<"X">>, <<m5>>, 1)>>,
      <<StrategyConfig("a", TRUE, <<"X">>, <<m5>>, 1),
        StrategyConfig("off", FALSE, <<"Y">>, <<m1>>, 1)>>,
      <<StrategyConfig("fast", TRUE, <<"Y">>, <<m1>>, 1)>> }

SeqRange(s) == {s[i] : i \in 1..Len(s)}

\* the unique (symbol, timeframe) pairs of the enabled strategies
ConfigPairs(config) ==
    UNION { {<<sym, tf>> : sym \in SeqRange(config[i].symbols),
                             tf \in SeqRange(config[i].timeframes)} :
            i \in {j \in 1..Len(config) : config[j].enabled} }

\* {symbol: {timeframe: BarAggregator}}
_create_aggregators(config) ==
    LET pairs == ConfigPairs(config)
        syms == {p[1] : p \in pairs}
    IN [sym \in syms |->
            [tf \in {p[2] : p \in {q \in pairs : q[1] = sym}} |->
                BarAggregator(sym, tf)]]

RECURSIVE StrategiesOf(_, _)
StrategiesOf(cfg, symbols) ==
    IF symbols = <<>> THEN <<>>
    ELSE LET strategy == SimpleBullishCCIStrategy(Head(symbols), cfg) IN
         <<[name |-> cfg.name, symbol |-> Head(symbols),
            timeframe |-> strategy.timeframe, instance |-> strategy]>>
         \o StrategiesOf(cfg, Tail(symbols))

RECURSIVE _create_strategies(_)
_create_strategies(config) ==
    IF config = <<>> THEN <<>>
    ELSE (IF Head(config).enabled THEN StrategiesOf(Head(config), Head(config).symbols)
          ELSE <<>>)
         \o _create_strategies(Tail(config))

\* all orders in which a dict keyed by the set S can be iterated
Orders(S) ==
    {f \in [1..Cardinality(S) -> S] : \A i, j \in 1..Cardinality(S) : f[i] = f[j] => i = j}

_map_symbol_to_instrument(symbol) == symbol

\* variant of _execute_signal that only logs the signals of replayed bars
_execute_signal_live_only(self, signal, ok) ==
    IF self.dry_run \/ self.replay_mode
    THEN [ev |-> "dry_run_log", signal |-> signal]
    ELSE IF signal.action = "entry"
    THEN [ev |-> "submit_market_order",
          instrument |-> _map_symbol_to_instrument(signal.symbol),
          action |-> IF signal.side = "long" THEN "BUY" ELSE "SELL",
          quantity |-> signal.quantity, ok |-> ok, signal |-> signal]
    ELSE IF signal.action = "exit"
    THEN [ev |-> "flatten_position",
          instrument |-> _map_symbol_to_instrument(signal.symbol),
          ok |-> ok, signal |-> signal]
    ELSE [ev |-> "ignored", signal |-> signal]

\* variant of _execute_signal without the dry-run test
_execute_signal_no_dry_run_test(self, signal, ok) ==
    IF signal.action = "entry"
    THEN [ev |-> "submit_market_order",
          instrument |-> _map_symbol_to_instrument(signal.symbol),
          action |-> IF signal.side = "long" THEN "BUY" ELSE "SELL",
          quantity |-> signal.quantity, ok |-> ok, signal |-> signal]
    ELSE IF signal.action = "exit"
    THEN [ev |-> "flatten_position",
          instrument |-> _map_symbol_to_instrument(signal.symbol),
          ok |-> ok, signal |-> signal]
    ELSE [ev |-> "ignored", signal |-> signal]

\* _execute_signal: the event it adds to the trace; ok says whether the
\* order-manager call returned (an exception is caught and logged)
_execute_signal(self, signal, ok) ==
    IF self.dry_run
    THEN [ev |-> "dry_run_log", signal |-> signal]
    ELSE IF signal.action = "entry"
    THEN [ev |-> "submit_market_order",
          instrument |-> _map_symbol_to_instrument(signal.symbol),
          action |-> IF signal.side = "long" THEN "BUY" ELSE "SELL",
          quantity |-> signal.quantity, ok |-> ok, signal |-> signal]
    ELSE IF signal.action = "exit"
    THEN [ev |-> "flatten_position",
          instrument |-> _map_symbol_to_instrument(signal.symbol),
          ok |-> ok, signal |-> signal]
    ELSE [ev |-> "ignored", signal |-> signal]

\* variant of the strategy match of _on_aggregated_bar that compares the
\* timeframe only
StrategyMatches_timeframe_only(strat_dict, symbol, timeframe) ==
    strat_dict.timeframe = timeframe

StrategyMatches(strat_dict, symbol, timeframe) ==
    strat_dict.symbol = symbol /\ strat_dict.timeframe = timeframe

\* _on_aggregated_bar from strategy index i on: st is [strategies, trace,
\* raised]; members are the one-minute bars the completed bar was built
\* from; an exception of on_bar leaves the loop and the method
RECURSIVE _on_aggregated_bar_from(_, _, _, _, _, _, _)
_on_aggregated_bar_from(self, st, bar, members, timeframe, choice, i) ==
    IF i > Len(st.strategies) THEN st
    ELSE IF StrategyMatches(st.strategies[i], bar.symbol, timeframe)
    THEN LET r == on_bar(st.strategies[i].instance, bar, choice[i].decide)
             received == [ev |-> "on_bar", unit |-> i, bar |-> bar,
                          members |-> members, timeframe |-> timeframe,
                          signal |-> r.signal, raised |-> r.raised]
             executed == IF IsNone(r.signal) THEN <<>>
                         ELSE <<_execute_signal(self, Val(r.signal), choice[i].ok)
                                   @@ [unit |-> i]>>
             st1 == [strategies |-> [st.strategies EXCEPT ![i].instance = r.self],
                     trace |-> st.trace \o <<received>> \o executed,
                     raised |-> r.raised]
         IN IF r.raised THEN st1
            ELSE _on_aggregated_bar_from(self, st1, bar, members, timeframe, choice, i + 1)
    ELSE _on_aggregated_bar_from(self, st, bar, members, timeframe, choice, i + 1)

_on_aggregated_bar(self, st, bar, members, timeframe, choice) ==
    _on_aggregated_bar_from(self, st, bar, members, timeframe, choice, 1)

\* the loop of on_1min_bar over self.aggregators[symbol].items(), from
\* position k of the iteration order on; st is [aggregators, strategies,
\* trace, raised]
RECURSIVE RouteToTimeframes(_, _, _, _, _)
RouteToTimeframes(self, st, bar, choice, k) ==
    LET order == self.tf_order[bar.symbol] IN
    IF k > Len(order) THEN st
    ELSE LET tf == order[k]
             r == add_bar(st.aggregators[bar.symbol][tf], bar)
             fed == [ev |-> "add_bar", symbol |-> bar.symbol, timeframe |-> tf,
                     bar |-> bar]
         IN IF r.raised
            THEN [st EXCEPT !.trace = st.trace \o <<fed>>, !.raised = TRUE]
            ELSE LET completed == IF IsNone(r.ret) THEN <<>>
                                  ELSE <<[ev |-> "completed", symbol |-> bar.symbol,
                                          timeframe |-> tf, bar |-> Val(r.ret)]>>
                     st1 == [st EXCEPT !.aggregators[bar.symbol][tf] = r.self,
                                       !.trace = st.trace \o <<fed>> \o completed]
                     st2 == IF IsNone(r.ret) THEN st1
                            ELSE LET d == _on_aggregated_bar(
                                              self,
                                              [strategies |-> st1.strategies,
                                               trace |-> st1.trace,
                                               raised |-> FALSE],
                                              Val(r.ret), r.closed, tf, choice)
                                 IN [st1 EXCEPT !.strategies = d.strategies,
                                                !.trace = d.trace,
                                                !.raised = d.raised]
                 IN IF st2.raised THEN st2
                    ELSE RouteToTimeframes(self, st2, bar, choice, k + 1)

\* variant of on_1min_bar without the test for an untracked symbol: the
\* lookup self.aggregators[symbol] raises KeyError
on_1min_bar_no_symbol_check(self, bar, choice) ==
    IF bar.symbol \notin DOMAIN self.aggregators
    THEN [self |-> self, trace |-> <<>>, raised |-> TRUE]
    ELSE LET st == RouteToTimeframes(
                       self,
                       [aggregators |-> self.aggregators,
                        strategies |-> self.strategies, trace |-> <<>>,
                        raised |-> FALSE],
                       bar, choice, 1)
         IN [self |-> [self EXCEPT !.aggregators = st.aggregators,
                                   !.strategies = st.strategies],
             trace |-> st.trace, raised |-> st.raised]

\* on_1min_bar: the new orchestrator, the trace of the call and whether an
\* exception left the handler
on_1min_bar(self, bar, choice) ==
    IF bar.symbol \notin DOMAIN self.aggregators
    THEN [self |-> self, trace |-> <<[ev |-> "untracked", symbol |-> bar.symbol]>>,
          raised |-> FALSE]
    ELSE LET st == RouteToTimeframes(
                       self,
                       [aggregators |-> self.aggregators,
                        strategies |-> self.strategies, trace |-> <<>>,
                        raised |-> FALSE],
                       bar, choice, 1)
         IN [self |-> [self EXCEPT !.aggregators = st.aggregators,
                                   !.strategies = st.strategies],
             trace |-> st.trace, raised |-> st.raised]

\* variant of set_live_mode that flips the mode
set_live_mode_toggle(self) == [self EXCEPT !.replay_mode = ~self.replay_mode]

\* set_live_mode: the callback on_replay_complete of the feed
set_live_mode(self) == [self EXCEPT !.replay_mode = FALSE]

\* variant of DatabentoLiveFeed.stop without the try block around
\* client.terminate()
DatabentoLiveFeed_stop_no_try(feed, terminate_ok) ==
    [self |-> [feed EXCEPT !.is_running = FALSE],
     raised |-> ~IsNone(feed.client) /\ ~terminate_ok]

\* DatabentoLiveFeed.stop: an exception of client.terminate() is caught
DatabentoLiveFeed_stop(feed, terminate_ok) ==
    [self |-> [feed EXCEPT !.is_running = FALSE], raised |-> FALSE]

\* the snapshot _print_final_stats logs: position and bar count state of
\* every decision unit, bars in the open period of every aggregator
_print_final_stats(self) ==
    [ev |-> "final_stats",
     strategies |-> [i \in 1..Len(self.strategies) |->
                        [name |-> self.strategies[i].name,
                         symbol |-> self.strategies[i].instance.symbol,
                         position |-> self.strategies[i].instance.position,
                         bars_in_position |-> self.strategies[i].instance.bars_in_position]],
     aggregators |-> [sym \in DOMAIN self.aggregators |->
                        [tf \in DOMAIN self.aggregators[sym] |->
                            get_bars_count(self.aggregators[sym][tf])]]]

\* LiveTradingOrchestrator.stop: the new orchestrator, the trace of the call
\* and whether an exception left it
stop(self, terminate_ok) ==
    LET f == DatabentoLiveFeed_stop(self.feed, terminate_ok)
        stopped == [self EXCEPT !.is_running = FALSE, !.feed = f.self]
    IN IF f.raised
       THEN [self |-> stopped, trace |-> <<[ev |-> "feed_stop"]>>, raised |-> TRUE]
       ELSE [self |-> stopped,
             trace |-> <<[ev |-> "feed_stop"], _print_final_stats(stopped)>>,
             raised |-> FALSE]

StartOutcomes == {"subscribed", "create_failed", "subscribe_failed"}

\* LiveTradingOrchestrator.start up to the record loop of the feed: the
\* client is created and subscribed; when one of the two raises, start logs
\* the error and calls stop
start(self, outcome, terminate_ok) ==
    LET running == [self EXCEPT !.is_running = TRUE]
        created == [running EXCEPT !.feed.client = Some("live")]
    IN IF outcome = "subscribed"
       THEN [self |-> [created EXCEPT !.feed.is_running = TRUE],
             trace |-> <<[ev |-> "feed_start"]>>, raised |-> FALSE]
       ELSE LET r == stop(IF outcome = "create_failed" THEN running ELSE created,
                          terminate_ok)
            IN [r EXCEPT !.trace = <<[ev |-> "feed_error"]>> \o r.trace]

\* the record loop of DatabentoLiveFeed.start ends (end of stream, error, or
\* is_running found false): finally self.stop(), and start returns
feed_loop_ends(self, terminate_ok) ==
    LET f == DatabentoLiveFeed_stop(self.feed, terminate_ok)
    IN [self |-> [self EXCEPT !.feed = f.self],
        trace |-> <<[ev |-> "feed_end"]>>, raised |-> f.raised]

\* signal_handler of _register_signal_handlers: self.stop(), then
\* sys.exit(0), which raises SystemExit where the main thread was
signal_handler(self, terminate_ok) ==
    LET r == stop(self, terminate_ok)
    IN [r EXCEPT !.trace = r.trace \o <<[ev |-> "sys_exit"]>>]

----------------------------------------------------------------------------
(* RateLimiter.  Time is counted in ticks and period_seconds is a whole    *)
(* number of ticks.  The float token count is kept exactly, as the integer *)
(* tokens * period_seconds: elapsed * refill_rate * period_seconds is      *)
(* elapsed * max_requests                                                  *)

\* burst_size None is <<>>
RLConfigs ==
    { [max_requests |-> 2, period_seconds |-> 2, burst_size |-> None],
      [max_requests |-> 1, period_seconds |-> 2, burst_size |-> Some(3)],
      [max_requests |-> 3, period_seconds |-> 2, burst_size |-> Some(0)] }

\* self.burst_size = burst_size or max_requests
RateLimiter(max_requests, period_seconds, burst_size, now) ==
    LET burst == IF IsNone(burst_size) \/ Val(burst_size) = 0 THEN max_requests
                 ELSE Val(burst_size)
    IN [max_requests |-> max_requests, period_seconds |-> period_seconds,
        burst_size |-> burst,
        tokens |-> burst * period_seconds,
        last_update |-> now]

\* a number of whole tokens in the unit of the field tokens
Whole(self, n) == n * self.period_seconds

_refill(self, now) ==
    LET elapsed == now - self.last_update
        new_tokens == elapsed * self.max_requests
    IN [self EXCEPT !.tokens = Min2(Whole(self, self.burst_size), self.tokens + new_tokens),
                    !.last_update = now]

\* variant of acquire that needs strictly more tokens than it takes
acquire_strict(self, tokens, now) ==
    LET r == _refill(self, now) IN
    IF r.tokens > Whole(r, tokens)
    THEN [self |-> [r EXCEPT !.tokens = r.tokens - Whole(r, tokens)], ret |-> TRUE]
    ELSE [self |-> r, ret |-> FALSE]

\* acquire under the lock: the new limiter and the result
acquire(self, tokens, now) ==
    LET r == _refill(self, now) IN
    IF r.tokens >= Whole(r, tokens)
    THEN [self |-> [r EXCEPT !.tokens = r.tokens - Whole(r, tokens)], ret |-> TRUE]
    ELSE [self |-> r, ret |-> FALSE]

\* get_tokens under the lock: the new limiter and the token count returned
get_tokens(self, now) ==
    LET r == _refill(self, now) IN [self |-> r, ret |-> r.tokens]

\* Monitor of the burst scenario, driven by the calls and the clock only:
\*   burst  k acquires of size 1 were made at time t0, the first of them on a
\*          full bucket (k stops counting at burst_size + 1)
\*   one    after at least burst_size such acquires, the first later call is
\*          an acquire of size 1 made when period_seconds/max_requests or
\*          more has elapsed since t0 (exact: exactly that much)
\*   after  the next acquire of size 1, made at the same time as the one
\*          before, which came exactly period_seconds/max_requests after t0
\*   off    anything else
ScenOff == [phase |-> "off", t0 |-> 0, k |-> 0, exact |-> FALSE]

ScenAfterAcquire(scen, pre, tokens, now) ==
    IF tokens # 1 THEN ScenOff
    ELSE IF pre.tokens = Whole(pre, pre.burst_size) /\ now >= pre.last_update
    THEN [phase |-> "burst", t0 |-> now, k |-> 1, exact |-> FALSE]
    ELSE IF scen.phase = "burst" /\ now = scen.t0
    THEN [scen EXCEPT !.k = Min2(scen.k + 1, pre.burst_size + 1)]
    ELSE IF /\ scen.phase = "burst"
            /\ scen.k >= pre.burst_size
            /\ (now - scen.t0) * pre.max_requests >= pre.period_seconds
    THEN [phase |-> "one", t0 |-> now, k |-> 0,
          exact |-> (now - scen.t0) * pre.max_requests = pre.period_seconds]
    ELSE IF scen.phase = "one" /\ scen.exact /\ now = scen.t0
    THEN [phase |-> "after", t0 |-> now, k |-> 0, exact |-> FALSE]
    ELSE ScenOff

----------------------------------------------------------------------------
(* Execution: CrossTradeClient, OrderManager, SignalTranslator.            *)
(* An instrument name is the sequence of its whitespace-separated words,   *)
(* so that "ES 12-25", "ES DEC25" and "es 12-25" are three names with one  *)
(* base symbol.  An exception is the name of its class.  What the venue    *)
(* answers to a request is an input of the call.                           *)

\* str.upper on the words used here
upper(w) == IF w = "es" THEN "ES" ELSE w

\* the names the venue reports positions under
VenueInstruments == { <<"ES", "DEC25">>, <<"ES", "12-25">>, <<"NQ", "12-25">> }

\* the names callers and signals use
SignalInstruments == { <<"ES", "12-25">>, <<"es", "12-25">> }

Quantities == {-2, 0, 3}

Positions == [instrument : VenueInstruments, quantity : Quantities]

\* what GET /accounts/{a}/positions can list: at most one position per name
VenueReports ==
    {<<>>} \cup { <<p>> : p \in Positions }
           \cup { r \in { <<p, q>> : p \in Positions, q \in Positions } :
                     r[1].instrument # r[2].instrument }

NoRequest == [instrument |-> <<>>, action |-> "", quantity |-> 0,
              orderType |-> "", timeInForce |-> "", limitPrice |-> None,
              stopPrice |-> None]

\* an entry of the list of calls a handler made
LogEntry(call, account, request) ==
    [call |-> call, account |-> account, request |-> request]

Returned(ret, log) == [ret |-> ret, raised |-> None, log |-> log]

Raised(error, log) == [ret |-> None, raised |-> Some(error), log |-> log]

\* account or self.account
AccountOr(account, default) == IF IsNone(account) THEN default ELSE account

CrossTradeClient(account) == [account |-> account]

\* the errors a request can end in: _request raises them, and the retry
\* decorator re-raises RateLimitError after its last try
RequestErrors == {"RateLimitError", "AuthenticationError", "AccountNotFoundError", "CrossTradeError"}

GetPositionsOutcomes ==
    { [kind |-> "ok", positions |-> r, error |-> ""] : r \in VenueReports }
    \cup { [kind |-> "raise", positions |-> <<>>, error |-> e] : e \in RequestErrors }

\* CrossTradeClient.get_positions
get_positions(self, account, outcome) ==
    LET acct == AccountOr(account, self.account) IN
    IF IsNone(acct) THEN Raised("ValueError", <<>>)
    ELSE LET log == <<LogEntry("get_positions", acct, NoRequest)>> IN
         IF outcome.kind = "ok" THEN Returned(outcome.positions, log)
         ELSE Raised(outcome.error, log)

\* how a submission can go: the placement is accepted and the order is then
\* found among the working orders ("found"), or not found ("not_found"), or
\* the look-up fails ("lookup_failed"); the venue answers without success
\* ("not_success", "not_success_margin" with the word margin in the answer);
\* the request is rate limited ("rate_limited"); it fails otherwise ("error",
\* "error_margin" with the word margin in the message)
SubmitOutcomes == {"found", "not_found", "lookup_failed", "not_success",
                   "not_success_margin", "rate_limited", "error", "error_margin"}

\* CrossTradeClient.submit_order; every CrossTradeError raised inside the try
\* block leaves as InsufficientMarginError or OrderError
submit_order(self, order_request, account, outcome, id) ==
    LET acct == AccountOr(account, self.account) IN
    IF IsNone(acct) THEN Raised("ValueError", <<>>) @@ [placed |-> FALSE]
    ELSE LET log == <<LogEntry("submit_order", acct, order_request)>>
             order(state) == [orderId |-> id,
                              instrument |-> order_request.instrument,
                              action |-> order_request.action,
                              quantity |-> order_request.quantity,
                              orderType |-> order_request.orderType,
                              limitPrice |-> order_request.limitPrice,
                              stopPrice |-> order_request.stopPrice,
                              state |-> state]
         IN CASE outcome = "found" -> Returned(Some(order("WORKING")), log) @@ [placed |-> TRUE]
              [] outcome = "not_found" -> Returned(Some(order("PENDING_SUBMIT")), log) @@ [placed |-> TRUE]
              [] outcome = "lookup_failed" -> Raised("OrderError", log) @@ [placed |-> TRUE]
              [] outcome \in {"not_success_margin", "error_margin"} ->
                     Raised("InsufficientMarginError", log) @@ [placed |-> FALSE]
              [] OTHER -> Raised("OrderError", log) @@ [placed |-> FALSE]

\* self._orders is a dict from orderId to Order: a function, empty at first
OrderManager(client, account) ==
    [client |-> client, account |-> AccountOr(account, client.account), _orders |-> <<>>]

\* self._orders[key] = order
SetItem(d, key, order) == (key :> order) @@ d

submit_market_order(self, instrument, action, quantity, account, outcome, id) ==
    LET order_request == [instrument |-> instrument, action |-> action,
                          quantity |-> quantity, orderType |-> "MARKET",
                          timeInForce |-> "DAY", limitPrice |-> None,
                          stopPrice |-> None]
        r == submit_order(self.client, order_request, AccountOr(account, self.account), outcome, id)
    IN IF IsNone(r.raised)
       THEN r @@ [self |-> [self EXCEPT !._orders = SetItem(@, Val(r.ret).orderId, Val(r.ret))]]
       ELSE r @@ [self |-> self]

\* variant of submit_limit_order that returns the order without caching it
submit_limit_order_uncached(self, instrument, action, quantity, limit_price, account, outcome, id) ==
    LET order_request == [instrument |-> instrument, action |-> action,
                          quantity |-> quantity, orderType |-> "LIMIT",
                          timeInForce |-> "DAY", limitPrice |-> Some(limit_price),
                          stopPrice |-> None]
        r == submit_order(self.client, order_request, AccountOr(account, self.account), outcome, id)
    IN r @@ [self |-> self]

\* time_in_force keeps its default DAY: no caller in src/ passes it
submit_limit_order(self, instrument, action, quantity, limit_price, account, outcome, id) ==
    LET order_request == [instrument |-> instrument, action |-> action,
                          quantity |-> quantity, orderType |-> "LIMIT",
                          timeInForce |-> "DAY", limitPrice |-> Some(limit_price),
                          stopPrice |-> None]
        r == submit_order(self.client, order_request, AccountOr(account, self.account), outcome, id)
    IN IF IsNone(r.raised)
       THEN r @@ [self |-> [self EXCEPT !._orders = SetItem(@, Val(r.ret).orderId, Val(r.ret))]]
       ELSE r @@ [self |-> self]

submit_stop_market_order(self, instrument, action, quantity, stop_price, account, outcome, id) ==
    LET order_request == [instrument |-> instrument, action |-> action,
                          quantity |-> quantity, orderType |-> "STOP_MARKET",
                          timeInForce |-> "DAY", limitPrice |-> None,
                          stopPrice |-> Some(stop_price)]
        r == submit_order(self.client, order_request, AccountOr(account, self.account), outcome, id)
    IN IF IsNone(r.raised)
       THEN r @@ [self |-> [self EXCEPT !._orders = SetItem(@, Val(r.ret).orderId, Val(r.ret))]]
       ELSE r @@ [self |-> self]

\* inst.split()[0].upper()
normalize_instrument(inst) == upper(inst[1])

FirstOf(S) == CHOOSE i \in S : \A j \in S : i <= j

abs(n) == IF n < 0 THEN -n ELSE n

\* variant of flatten_position that takes the first position of the base
\* symbol whatever its quantity
flatten_position_any_quantity(self, instrument, account, pos_outcome, sub_outcome, id) ==
    LET p == get_positions(self.client, AccountOr(account, self.account), pos_outcome) IN
    IF ~IsNone(p.raised)
    THEN p @@ [self |-> self, placed |-> FALSE, reports |-> <<>>]
    ELSE LET positions == p.ret
             instrument_base == normalize_instrument(instrument)
             matching == { i \in 1..Len(positions) :
                             normalize_instrument(positions[i].instrument) = instrument_base }
         IN IF matching = {}
            THEN Raised("ValueError", p.log)
                   @@ [self |-> self, placed |-> FALSE, reports |-> <<positions>>]
            ELSE LET target_position == positions[FirstOf(matching)]
                     close_action == IF target_position.quantity > 0 THEN "SELL" ELSE "BUY"
                     close_quantity == abs(target_position.quantity)
                     s == submit_market_order(self, target_position.instrument, close_action,
                                              close_quantity, account, sub_outcome, id)
                 IN [s EXCEPT !.log = p.log \o s.log] @@ [reports |-> <<positions>>]

\* OrderManager.flatten_position: the new manager, the order returned or the
\* exception raised, the calls made, and what the venue reported
flatten_position(self, instrument, account, pos_outcome, sub_outcome, id) ==
    LET p == get_positions(self.client, AccountOr(account, self.account), pos_outcome) IN
    IF ~IsNone(p.raised)
    THEN p @@ [self |-> self, placed |-> FALSE, reports |-> <<>>]
    ELSE LET positions == p.ret
             instrument_base == normalize_instrument(instrument)
             matching == { i \in 1..Len(positions) :
                             /\ normalize_instrument(positions[i].instrument) = instrument_base
                             /\ positions[i].quantity # 0 }
         IN IF matching = {}
            THEN Raised("ValueError", p.log)
                   @@ [self |-> self, placed |-> FALSE, reports |-> <<positions>>]
            ELSE LET target_position == positions[FirstOf(matching)]
                     close_action == IF target_position.quantity > 0 THEN "SELL" ELSE "BUY"
                     close_quantity == abs(target_position.quantity)
                     s == submit_market_order(self, target_position.instrument, close_action,
                                              close_quantity, account, sub_outcome, id)
                 IN [s EXCEPT !.log = p.log \o s.log] @@ [reports |-> <<positions>>]

\* the orders the venue can list as working; what is not used by the
\* handlers modelled (action, quantity, type, prices) is the same for all
VenueOrder(id, instrument) ==
    [orderId |-> id, instrument |-> instrument, action |-> "BUY", quantity |-> 1,
     orderType |-> "LIMIT", limitPrice |-> Some(5), stopPrice |-> None,
     state |-> "WORKING"]

VenueOrders == { VenueOrder(id, i) : id \in 1..MaxWorking, i \in SignalInstruments }

DistinctIds(orders) ==
    \A i, j \in 1..Len(orders) : orders[i].orderId = orders[j].orderId => i = j

\* what GET /accounts/{a}/orders?status=WORKING can list
WorkingLists ==
    UNION { { l \in [1..n -> VenueOrders] : DistinctIds(l) } : n \in 0..MaxWorking }

GetOrdersOutcomes ==
    { [kind |-> "ok", orders |-> l, error |-> ""] : l \in WorkingLists }
    \cup { [kind |-> "raise", orders |-> <<>>, error |-> e] : e \in RequestErrors }

\* CrossTradeClient.get_orders
get_orders(self, account, outcome) ==
    LET acct == AccountOr(account, self.account) IN
    IF IsNone(acct) THEN Raised("ValueError", <<>>)
    ELSE LET log == <<LogEntry("get_orders", acct, NoRequest)>> IN
         IF outcome.kind = "ok" THEN Returned(outcome.orders, log)
         ELSE Raised(outcome.error, log)

\* how the cancellation of one order can go
CancelOutcomes == {"cancelled"} \cup RequestErrors

\* CrossTradeClient.cancel_order(order.orderId): the venue answers with the
\* order as it is after the cancellation
client_cancel_order(self, order, account, outcome) ==
    LET acct == AccountOr(account, self.account) IN
    IF IsNone(acct) THEN Raised("ValueError", <<>>)
    ELSE LET log == <<LogEntry("cancel_order", acct, NoRequest)
                        @@ [order_id |-> order.orderId]>> IN
         IF outcome = "cancelled"
         THEN Returned(Some([order EXCEPT !.state = "CANCELLED"]), log)
         ELSE Raised(outcome, log)

\* OrderManager.cancel_order, called with the id of order
cancel_order(self, order, account, outcome) ==
    LET r == client_cancel_order(self.client, order, AccountOr(account, self.account), outcome)
    IN IF IsNone(r.raised)
       THEN r @@ [self |-> [self EXCEPT !._orders = SetItem(@, order.orderId, Val(r.ret))]]
       ELSE r @@ [self |-> self]

\* the loop of cancel_all_orders over orders, from position i on
RECURSIVE cancel_each(_, _, _, _, _)
cancel_each(self, orders, account, outcomes, i) ==
    IF i > Len(orders) THEN [self |-> self, cancelled |-> <<>>, log |-> <<>>]
    ELSE LET c == cancel_order(self, orders[i], account, outcomes[i])
             rest == cancel_each(c.self, orders, account, outcomes, i + 1)
         IN [self |-> rest.self,
             cancelled |-> (IF IsNone(c.raised) THEN <<Val(c.ret)>> ELSE <<>>)
                              \o rest.cancelled,
             log |-> c.log \o rest.log]

\* variant of cancel_all_orders that cancels the orders of every instrument
cancel_all_orders_unfiltered(self, instrument, account, orders_outcome, outcomes) ==
    LET g == get_orders(self.client, AccountOr(account, self.account), orders_outcome) IN
    IF ~IsNone(g.raised) THEN g @@ [self |-> self, listed |-> <<>>]
    ELSE LET c == cancel_each(self, g.ret, account, outcomes, 1)
         IN Returned(Some(c.cancelled), g.log \o c.log)
              @@ [self |-> c.self, listed |-> g.ret]

\* OrderManager.cancel_all_orders; outcomes[i] is how the i-th cancellation
\* goes; listed is what the venue listed as working
cancel_all_orders(self, instrument, account, orders_outcome, outcomes) ==
    LET g == get_orders(self.client, AccountOr(account, self.account), orders_outcome) IN
    IF ~IsNone(g.raised) THEN g @@ [self |-> self, listed |-> <<>>]
    ELSE LET orders == IF IsNone(instrument) THEN g.ret
                       ELSE SelectSeq(g.ret, LAMBDA o : o.instrument = Val(instrument))
             c == cancel_each(self, orders, account, outcomes, 1)
         IN Returned(Some(c.cancelled), g.log \o c.log)
              @@ [self |-> c.self, listed |-> g.ret]

SignalTypes == {"LONG_ENTRY", "SHORT_ENTRY", "EXIT", "EXIT_LONG", "EXIT_SHORT"}

\* the signal_type values a signal may carry: the five names and another string
SignalTypeInputs == SignalTypes \cup {"HOLD"}

SignalTranslator(order_manager, default_quantity, use_market_orders) ==
    [order_manager |-> order_manager, default_quantity |-> default_quantity,
     use_market_orders |-> use_market_orders]

_normalize_signal_type(signal_type) ==
    IF signal_type \in SignalTypes THEN Returned(Some(signal_type), <<>>)
    ELSE Raised("OrderError", <<>>)

\* the quantity of the first position listed under exactly this name, or None
check_existing_position(self, instrument, outcome) ==
    LET p == get_positions(self.order_manager.client, None, outcome) IN
    IF ~IsNone(p.raised) THEN p @@ [reports |-> <<>>]
    ELSE LET positions == p.ret
             same == { i \in 1..Len(positions) : positions[i].instrument = instrument }
         IN Returned(IF same = {} THEN None ELSE Some(positions[FirstOf(same)].quantity), p.log)
              @@ [reports |-> <<positions>>]

\* variant of the reversal branch that returns True without flattening
Reverse_no_flatten(self, instrument, c, pos_outcome, sub_outcome, id) ==
    Returned(Some(TRUE), c.log) @@ [self |-> self, placed |-> FALSE, reports |-> c.reports]

\* the reversal branch: flatten_position(instrument), then return True
Reverse(self, instrument, c, pos_outcome, sub_outcome, id) ==
    LET f == flatten_position(self.order_manager, instrument, None, pos_outcome, sub_outcome, id)
        log == c.log \o <<LogEntry("flatten_position", None,
                                   [NoRequest EXCEPT !.instrument = instrument])>> \o f.log
        out == [self |-> [self EXCEPT !.order_manager = f.self],
                placed |-> f.placed, reports |-> c.reports \o f.reports]
    IN IF IsNone(f.raised) THEN Returned(Some(TRUE), log) @@ out
       ELSE Raised(Val(f.raised), log) @@ out

\* SignalTranslator.should_enter_trade
should_enter_trade(self, signal, allow_reversals, check_outcome, pos_outcome, sub_outcome, id) ==
    LET instrument == signal.instrument
        t == _normalize_signal_type(signal.signal_type)
        same == [self |-> self, placed |-> FALSE]
    IN IF ~IsNone(t.raised) THEN t @@ same @@ [reports |-> <<>>]
       ELSE
       LET signal_type == Val(t.ret)
           c == check_existing_position(self, instrument, check_outcome)
           answer(b) == Returned(Some(b), c.log) @@ same @@ [reports |-> c.reports]
       IN IF ~IsNone(c.raised) THEN c @@ same
          ELSE
          LET current_qty == c.ret IN
          IF IsNone(current_qty) \/ Val(current_qty) = 0 THEN answer(TRUE)
          ELSE IF Val(current_qty) > 0 /\ signal_type = "LONG_ENTRY" THEN answer(FALSE)
          ELSE IF Val(current_qty) > 0 /\ signal_type = "SHORT_ENTRY"
          THEN IF allow_reversals
               THEN Reverse(self, instrument, c, pos_outcome, sub_outcome, id)
               ELSE answer(FALSE)
          ELSE IF Val(current_qty) < 0 /\ signal_type = "SHORT_ENTRY" THEN answer(FALSE)
          ELSE IF Val(current_qty) < 0 /\ signal_type = "LONG_ENTRY"
          THEN IF allow_reversals
               THEN Reverse(self, instrument, c, pos_outcome, sub_outcome, id)
               ELSE answer(FALSE)
          ELSE answer(TRUE)


\* a signal: signal_type and instrument, and the optional price, stop_price
\* and quantity (None when the key is absent)
Signal(signal_type, instrument, price, stop_price, quantity) ==
    [signal_type |-> signal_type, instrument |-> instrument, price |-> price,
     stop_price |-> stop_price, quantity |-> quantity]

\* Python's x or y on optional integers: None and 0 are false
PyOr(x, y) == IF ~IsNone(x) /\ Val(x) # 0 THEN x ELSE y

\* the result r of an OrderManager call as result of a translator method
OfManager(self, r) ==
    [ret |-> r.ret, raised |-> r.raised, log |-> r.log, placed |-> r.placed,
     reports |-> IF "reports" \in DOMAIN r THEN r.reports ELSE <<>>,
     self |-> [self EXCEPT !.order_manager = r.self]]

\* variant of _handle_long_entry that prefers the limit order to the stop
_handle_long_entry_price_first(self, instrument, quantity, price, stop_price, sub_outcome, id) ==
    IF ~IsNone(price) /\ ~self.use_market_orders
    THEN OfManager(self, submit_limit_order(self.order_manager, instrument, "BUY",
                                            quantity, Val(price), None, sub_outcome, id))
    ELSE IF ~IsNone(stop_price)
    THEN OfManager(self, submit_stop_market_order(self.order_manager, instrument, "BUY",
                                                  quantity, Val(stop_price), None,
                                                  sub_outcome, id))
    ELSE OfManager(self, submit_market_order(self.order_manager, instrument, "BUY",
                                             quantity, None, sub_outcome, id))

_handle_long_entry(self, instrument, quantity, price, stop_price, sub_outcome, id) ==
    IF ~IsNone(stop_price)
    THEN OfManager(self, submit_stop_market_order(self.order_manager, instrument, "BUY",
                                                  quantity, Val(stop_price), None,
                                                  sub_outcome, id))
    ELSE IF self.use_market_orders \/ IsNone(price)
    THEN OfManager(self, submit_market_order(self.order_manager, instrument, "BUY",
                                             quantity, None, sub_outcome, id))
    ELSE OfManager(self, submit_limit_order(self.order_manager, instrument, "BUY",
                                            quantity, Val(price), None, sub_outcome, id))

_handle_short_entry(self, instrument, quantity, price, stop_price, sub_outcome, id) ==
    IF ~IsNone(stop_price)
    THEN OfManager(self, submit_stop_market_order(self.order_manager, instrument,
                                                  "SELL_SHORT", quantity, Val(stop_price),
                                                  None, sub_outcome, id))
    ELSE IF self.use_market_orders \/ IsNone(price)
    THEN OfManager(self, submit_market_order(self.order_manager, instrument, "SELL_SHORT",
                                             quantity, None, sub_outcome, id))
    ELSE OfManager(self, submit_limit_order(self.order_manager, instrument, "SELL_SHORT",
                                            quantity, Val(price), None, sub_outcome, id))

_handle_exit(self, instrument, pos_outcome, sub_outcome, id) ==
    OfManager(self, flatten_position(self.order_manager, instrument, None, pos_outcome,
                                     sub_outcome, id))

_handle_exit_long(self, instrument, quantity, sub_outcome, id) ==
    OfManager(self, submit_market_order(self.order_manager, instrument, "SELL", quantity,
                                        None, sub_outcome, id))

_handle_exit_short(self, instrument, quantity, sub_outcome, id) ==
    OfManager(self, submit_market_order(self.order_manager, instrument, "BUY_TO_COVER",
                                        quantity, None, sub_outcome, id))

\* SignalTranslator.process_signal: the new translator, the order returned
\* or the exception raised, the calls made and whether an order was placed
process_signal(self, signal, quantity, pos_outcome, sub_outcome, id) ==
    LET t == _normalize_signal_type(signal.signal_type) IN
    IF ~IsNone(t.raised) THEN t @@ [self |-> self, placed |-> FALSE, reports |-> <<>>]
    ELSE
    LET signal_type == Val(t.ret)
        instrument == signal.instrument
        price == signal.price
        stop_price == signal.stop_price
        qty == Val(PyOr(quantity, PyOr(signal.quantity, Some(self.default_quantity))))
    IN CASE signal_type = "LONG_ENTRY" ->
                _handle_long_entry(self, instrument, qty, price, stop_price, sub_outcome, id)
         [] signal_type = "SHORT_ENTRY" ->
                _handle_short_entry(self, instrument, qty, price, stop_price, sub_outcome, id)
         [] signal_type = "EXIT" ->
                _handle_exit(self, instrument, pos_outcome, sub_outcome, id)
         [] signal_type = "EXIT_LONG" ->
                _handle_exit_long(self, instrument, qty, sub_outcome, id)
         [] signal_type = "EXIT_SHORT" ->
                _handle_exit_short(self, instrument, qty, sub_outcome, id)
         [] OTHER -> Returned(None, <<>>)
                       @@ [self |-> self, placed |-> FALSE, reports |-> <<>>]

\* the classes named by the clause "except (OrderError, ValueError)" and
\* their subclasses: OrderError has no subclass in exceptions.py
CaughtByBatch == {"OrderError", "ValueError"}

\* the loop of process_signals_batch from signal i on; outcomes[i] is how
\* the venue answers the requests made for signal i; results[i] is what
\* process_signal did for signal i
RECURSIVE batch_from(_, _, _, _, _)
batch_from(self, signals, outcomes, i, id) ==
    IF i > Len(signals)
    THEN [self |-> self, ret |-> Some(<<>>), raised |-> None, log |-> <<>>,
          results |-> <<>>, id |-> id]
    ELSE LET r == process_signal(self, signals[i], None, outcomes[i].pos,
                                 outcomes[i].sub, id)
             next_id == IF r.placed THEN id + 1 ELSE id
         IN IF ~IsNone(r.raised) /\ Val(r.raised) \notin CaughtByBatch
            THEN [self |-> r.self, ret |-> None, raised |-> r.raised, log |-> r.log,
                  results |-> <<r>>, id |-> next_id]
            ELSE LET rest == batch_from(r.self, signals, outcomes, i + 1, next_id)
                     order == IF IsNone(r.raised) THEN r.ret ELSE None
                 IN [self |-> rest.self,
                     ret |-> IF IsNone(rest.raised) THEN Some(<<order>> \o Val(rest.ret))
                             ELSE None,
                     raised |-> rest.raised,
                     log |-> r.log \o rest.log,
                     results |-> <<r>> \o rest.results,
                     id |-> rest.id]

\* SignalTranslator.process_signals_batch
process_signals_batch(self, signals, outcomes, id) ==
    batch_from(self, signals, outcomes, 1, id)

----------------------------------------------------------------------------
(* CrossTradeClient: the transport (_request), the retry decorator and the *)
(* operations built on them.  Time is counted in tenths of a second, the   *)
(* length of the sleep of wait_for_token; the limiter's period_seconds is  *)
(* in the same unit.                                                       *)

\* time.sleep(0.1) in wait_for_token
PollSleep == 1

\* self.rate_limiter.wait_for_token(timeout=10) in _request
TokenTimeout == 100

\* @retry(exceptions=RateLimitError, tries=3, delay=2)
Tries == 3

RetryDelay == 20

\* the limiters a client can be built with (parameter rate_limiter): one
\* token in 5 seconds with a burst of two, one token in 15 seconds
ClientLimiters ==
    { RateLimiter(1, 50, Some(2), 0), RateLimiter(1, 150, Some(1), 0) }

\* CrossTradeClient.__init__ with a rate limiter
CrossTradeClientWith(account, rate_limiter) ==
    [account |-> account, rate_limiter |-> rate_limiter]

\* the times at which the loop of wait_for_token, entered at time t, calls
\* acquire: every PollSleep until timeout or more has elapsed
PollTimes(timeout, t) == { t + k * PollSleep : k \in 0..((timeout + PollSleep - 1) \div PollSleep) }

\* wait_for_token entered at time t: the new limiter, the result, the time
\* of the return and the tokens taken.  A failed acquire only refills, and
\* two refills in a row add up to one, so the loop returns at the first
\* poll time at which acquire succeeds on the limiter as it was at entry
wait_for_token(self, tokens, timeout, t) ==
    LET polls == PollTimes(Val(timeout), t)
        hits == { p \in polls : acquire(self, tokens, p).ret }
        last == IF hits = {} THEN SetMax(polls) ELSE SetMin(hits)
        r == acquire(self, tokens, last)
    IN [self |-> r.self, ret |-> r.ret, now |-> last,
        taken |-> _refill(self, last).tokens - r.self.tokens]

\* a value of the header Retry-After: an integer literal such as "7", a
\* decimal literal such as "1.5" (whole and fractional part), the literal
\* "inf", any other text such as "1s", or the empty string
Header(kind, whole, frac) == [kind |-> kind, whole |-> whole, frac |-> frac]

RetryAfterHeaders ==
    { Header("int", 7, 0), Header("decimal", 1, 5), Header("inf", 0, 0),
      Header("text", 0, 0), Header("empty", 0, 0) }

\* the parsing of Retry-After in _request: int(header), else
\* int(float(header)), else None; int(float("inf")) raises OverflowError,
\* which is not a ValueError
ParseRetryAfter(header) ==
    IF IsNone(header) \/ Val(header).kind = "empty"
    THEN [ret |-> None, raised |-> None]
    ELSE CASE Val(header).kind = "int" -> [ret |-> Some(Val(header).whole), raised |-> None]
           [] Val(header).kind = "decimal" -> [ret |-> Some(Val(header).whole), raised |-> None]
           [] Val(header).kind = "inf" -> [ret |-> None, raised |-> Some("OverflowError")]
           [] OTHER -> [ret |-> None, raised |-> None]

\* what the venue or the network answers to one request; success is the
\* field of the body, text says whether the body holds the word margin
Response(kind, status, header, success, text) ==
    [kind |-> kind, status |-> status, header |-> header, success |-> success,
     text |-> text]

Responses ==
    { Response("status", 200, None, TRUE, ""),
      Response("status", 200, None, FALSE, ""),
      Response("status", 200, None, FALSE, "margin"),
      Response("status", 401, None, FALSE, ""),
      Response("status", 404, None, FALSE, ""),
      Response("status", 400, None, FALSE, ""),
      Response("status", 400, None, FALSE, "margin"),
      Response("status", 500, None, FALSE, ""),
      Response("timeout", 0, None, FALSE, ""),
      Response("connection", 0, None, FALSE, "") }
    \cup { Response("status", 429, h, FALSE, "") :
             h \in {None} \cup { Some(x) : x \in RetryAfterHeaders } }

\* an exception: its class, retry_after of a RateLimitError, and whether
\* its message holds the word margin
Error(type, retry_after, text) ==
    [type |-> type, retry_after |-> retry_after, text |-> text]

\* the subclasses of CrossTradeError, and CrossTradeError itself
CrossTradeErrors ==
    {"CrossTradeError", "AuthenticationError", "RateLimitError", "OrderError",
     "AccountNotFoundError", "InstrumentNotFoundError", "InsufficientMarginError"}

\* the exception _request raises for a response, None if it returns it
StatusOf(response) ==
    CASE response.kind = "timeout" -> Some(Error("CrossTradeError", None, ""))
      [] response.kind = "connection" -> Some(Error("CrossTradeError", None, ""))
      [] response.status = 401 -> Some(Error("AuthenticationError", None, ""))
      [] response.status = 429 ->
            LET p == ParseRetryAfter(response.header) IN
            IF IsNone(p.raised) THEN Some(Error("RateLimitError", p.ret, ""))
            ELSE Some(Error(Val(p.raised), None, ""))
      [] response.status = 404 -> Some(Error("AccountNotFoundError", None, ""))
      [] response.status >= 400 -> Some(Error("CrossTradeError", None, response.text))
      [] OTHER -> None

\* variant of _request that sends the request whatever wait_for_token
\* returned
_request_no_gate(self, method, response, t) ==
    LET w == wait_for_token(self.rate_limiter, 1, Some(TokenTimeout), t)
        waited == [ev |-> "wait_for_token", ret |-> w.ret, taken |-> w.taken,
                   waited |-> w.now - t]
        sent == [ev |-> "http", method |-> method, response |-> response]
    IN [self |-> [self EXCEPT !.rate_limiter = w.self], now |-> w.now,
        log |-> <<waited, sent>>,
        ret |-> IF IsNone(StatusOf(response)) THEN Some(response) ELSE None,
        raised |-> StatusOf(response)]

\* _request at time t, the venue answering with response if the request is
\* sent: the new client, the time of the return, what was done, the result
_request(self, method, response, t) ==
    LET w == wait_for_token(self.rate_limiter, 1, Some(TokenTimeout), t)
        waited == [ev |-> "wait_for_token", ret |-> w.ret, taken |-> w.taken,
                   waited |-> w.now - t]
        sent == [ev |-> "http", method |-> method, response |-> response]
    IN IF ~w.ret
       THEN [self |-> [self EXCEPT !.rate_limiter = w.self], now |-> w.now,
             log |-> <<waited>>, ret |-> None,
             raised |-> Some(Error("RateLimitError", None, ""))]
       ELSE [self |-> [self EXCEPT !.rate_limiter = w.self], now |-> w.now,
             log |-> <<waited, sent>>,
             ret |-> IF IsNone(StatusOf(response)) THEN Some(response) ELSE None,
             raised |-> StatusOf(response)]

\* variant of the retry decorator that retries after every exception
retry_every_error(raised, _tries) ==
    IF ~IsNone(raised)
    THEN IF _tries - 1 = 0
         THEN [done |-> TRUE, _tries |-> 0, slept |-> 0]
         ELSE [done |-> FALSE, _tries |-> _tries - 1, slept |-> RetryDelay]
    ELSE [done |-> TRUE, _tries |-> _tries, slept |-> 0]

\* one iteration of the loop of the retry decorator after an attempt that
\* ended with raised (None: it returned), _tries attempts being left with
\* this one: whether the loop is left, the attempts left, the sleep
retry(raised, _tries) ==
    IF ~IsNone(raised) /\ Val(raised).type = "RateLimitError"
    THEN IF _tries - 1 = 0
         THEN [done |-> TRUE, _tries |-> 0, slept |-> 0]
         ELSE [done |-> FALSE, _tries |-> _tries - 1, slept |-> RetryDelay]
    ELSE [done |-> TRUE, _tries |-> _tries, slept |-> 0]

\* variant of the except clause of submit_order that lets a RateLimitError
\* pass to the retry decorator
WrapOrderError_rate_limit_passes(raised) ==
    IF IsNone(raised) \/ Val(raised).type \notin CrossTradeErrors THEN raised
    ELSE IF Val(raised).type = "RateLimitError" THEN raised
    ELSE IF Val(raised).text = "margin"
    THEN Some(Error("InsufficientMarginError", None, "margin"))
    ELSE Some(Error("OrderError", None, ""))

\* the except clause of submit_order: a CrossTradeError leaves as
\* InsufficientMarginError if its message holds the word margin, else as
\* OrderError; any other exception passes
WrapOrderError(raised) ==
    IF IsNone(raised) \/ Val(raised).type \notin CrossTradeErrors THEN raised
    ELSE IF Val(raised).text = "margin"
    THEN Some(Error("InsufficientMarginError", None, "margin"))
    ELSE Some(Error("OrderError", None, ""))

\* the operations of the client that are one decorated _request, and
\* submit_order; the method of the request each one sends first
ClientOps == {"get_positions", "get_orders", "cancel_order", "submit_order"}

MethodOf(op) ==
    CASE op = "submit_order" -> "POST"
      [] op = "cancel_order" -> "DELETE"
      [] OTHER -> "GET"

\* the record of one attempt of the decorated method op
AttemptEvent(op, raised) == [ev |-> "attempt", op |-> op, error |-> raised]

SleepEvents(a) == IF a.done THEN <<>> ELSE <<[ev |-> "sleep", ticks |-> a.slept]>>

IdleCall ==
    [op |-> "none", phase |-> "idle", _tries |-> 0, inner_tries |-> 0,
     log |-> <<>>, ret |-> None, raised |-> None]

----------------------------------------------------------------------------
(* SpecAgg: one aggregator of symbol X fed arbitrary bars (any timestamp *)
(* of the range, either symbol)                                          *)

NoCall == [bar |-> None, ret |-> None, raised |-> FALSE, closed |-> <<>>]

CallOf(bar, r) == [bar |-> Some(bar), ret |-> r.ret, raised |-> r.raised, closed |-> r.closed]

InitAgg ==
    /\ \E tf \in {t \in Timeframes : is_intraday(t)} : agg = BarAggregator("X", tf)
    /\ agg_call = NoCall
    /\ run_start = 0
    /\ run_n = 0
    /\ run_recent = <<>>
    /\ run_emitted = 0
    /\ run_first = 0
    /\ agg_late = <<>>
    /\ agg_late_call = <<>>
    /\ OrchUnused
    /\ RLUnused
    /\ ExecUnused
    /\ ClientUnused
    /\ ThUnused

AddBar ==
    /\ \E sym \in Symbols, t \in MinTime..MaxTime, sh \in BarShapes :
        LET bar == MkBar(sym, t, sh)
            r == add_bar(agg, bar)
        IN /\ Len(r.self.bars_in_period) <= MaxPeriodBars
           /\ agg' = r.self
           /\ agg_call' = CallOf(bar, r)
    /\ UNCHANGED <<run_start, run_n, run_recent, run_emitted, run_first>>
    /\ UNCHANGED <<agg_late, agg_late_call>>
    /\ UNCHANGED <<orchVars, rlVars, execVars, clientVars, thVars>>

NextAgg == AddBar

SpecAgg == InitAgg /\ [][NextAgg]_vars

----------------------------------------------------------------------------
(* SpecAggRun: one aggregator fed a run of consecutive one-minute bars of *)
(* its own symbol, the first of them exactly on a window boundary         *)

RunStarts == 45..60

LastN(s, n) == IF Len(s) <= n THEN s ELSE SubSeq(s, Len(s) - n + 1, Len(s))

InitAggRun ==
    /\ \E tf \in {t \in Timeframes : is_intraday(t)} : agg = BarAggregator("X", tf)
    /\ run_start \in {t \in RunStarts : _floor_to_period(t, period_minutes(agg)) = t}
    /\ agg_call = NoCall
    /\ run_n = 0
    /\ run_recent = <<>>
    /\ run_emitted = 0
    /\ run_first = 0
    /\ agg_late = <<>>
    /\ agg_late_call = <<>>
    /\ OrchUnused
    /\ RLUnused
    /\ ExecUnused
    /\ ClientUnused
    /\ ThUnused

AddRunBar ==
    /\ run_n < RunLength
    /\ \E sh \in BarShapes :
        LET bar == MkBar(agg.symbol, run_start + run_n, sh)
            r == add_bar(agg, bar)
        IN /\ agg' = r.self
           /\ agg_call' = CallOf(bar, r)
           /\ run_recent' = LastN(Append(run_recent, bar), period_minutes(agg))
           /\ run_emitted' = IF IsNone(r.ret) THEN run_emitted ELSE run_emitted + 1
           /\ run_first' = IF run_first = 0 /\ ~IsNone(r.ret) THEN run_n + 1 ELSE run_first
    /\ run_n' = run_n + 1
    /\ UNCHANGED <<run_start, agg_late, agg_late_call>>
    /\ UNCHANGED <<orchVars, rlVars, execVars, clientVars, thVars>>

NextAggRun == AddRunBar

SpecAggRun == InitAggRun /\ [][NextAggRun]_vars

----------------------------------------------------------------------------
(* SpecRestart: two aggregators of one symbol and one window length read   *)
(* the same stream of one-minute bars, in which minutes can be missing:    *)
(* the first from the first bar on, the second, created later (a restart), *)
(* from some later bar on                                                  *)

InitRestart ==
    /\ \E tf \in {t \in Timeframes : is_intraday(t)} : agg = BarAggregator("X", tf)
    /\ agg_late = None
    /\ agg_call = NoCall
    /\ agg_late_call = [ret |-> None, started |-> 0, bucket_first |-> 0]
    /\ run_start = MinTime
    /\ run_n = 0
    /\ run_recent = <<>>
    /\ run_emitted = 0
    /\ run_first = 0
    /\ OrchUnused
    /\ RLUnused
    /\ ExecUnused
    /\ ClientUnused
    /\ ThUnused

\* the bar of minute run_start + run_n arrives; the second aggregator may
\* be created just before it; the next bar of the stream is the one of the
\* next minute or of the minute after
RestartBar ==
    /\ run_start + run_n <= MaxTime
    /\ \E sh \in BarShapes, start_late \in BOOLEAN :
       \E bar \in {MkBar(agg.symbol, run_start + run_n, sh)} :
       \E r \in {add_bar(agg, bar)} :
       \E late \in {IF IsNone(agg_late) /\ start_late
                    THEN Some(BarAggregator(agg.symbol, agg.target_tf))
                    ELSE agg_late} :
       \E l \in {IF IsNone(late) THEN [self |-> None, ret |-> None]
                 ELSE [self |-> Some(add_bar(Val(late), bar).self),
                       ret |-> add_bar(Val(late), bar).ret]} :
         /\ agg' = r.self
         /\ agg_call' = CallOf(bar, r)
         /\ agg_late' = l.self
         /\ agg_late_call' =
              [ret |-> l.ret,
               started |-> IF agg_late_call.started = 0 /\ ~IsNone(late)
                           THEN bar.date ELSE agg_late_call.started,
               bucket_first |->
                   IF /\ agg_late_call.bucket_first # 0
                      /\ _floor_to_period(agg_late_call.bucket_first, period_minutes(agg))
                           = _floor_to_period(bar.date, period_minutes(agg))
                   THEN agg_late_call.bucket_first ELSE bar.date]
    /\ \E gap \in 1..2 : run_n' = run_n + gap
    /\ UNCHANGED <<run_start, run_recent, run_emitted, run_first>>
    /\ UNCHANGED <<orchVars, rlVars, execVars, clientVars, thVars>>

NextRestart == RestartBar

SpecRestart == InitRestart /\ [][NextRestart]_vars

----------------------------------------------------------------------------
(* SpecOrch: the orchestrator built from one of the configurations, fed   *)
(* one-minute bars of the symbols X, Y and Z in any interleaving          *)

\* DatabentoLiveFeed.__init__: no client yet, not running
DatabentoLiveFeed == [client |-> None, is_running |-> FALSE]

LiveTradingOrchestrator(config, dry_run, tf_order) ==
    [aggregators |-> _create_aggregators(config),
     tf_order |-> tf_order,
     strategies |-> _create_strategies(config),
     feed |-> DatabentoLiveFeed,
     dry_run |-> dry_run,
     replay_mode |-> TRUE,
     is_running |-> FALSE]

InitOrch ==
    /\ \E config \in Configs, dry_run \in BOOLEAN :
         LET aggs == _create_aggregators(config) IN
         \E tf_order \in [DOMAIN aggs -> UNION {Orders(DOMAIN aggs[sym]) : sym \in DOMAIN aggs}] :
            /\ \A sym \in DOMAIN aggs : tf_order[sym] \in Orders(DOMAIN aggs[sym])
            /\ orch = LiveTradingOrchestrator(config, dry_run, tf_order)
    /\ orch_trace = <<>>
    /\ AggUnused
    /\ RLUnused
    /\ ExecUnused
    /\ ClientUnused
    /\ ThUnused

\* the inputs of the decision units a bar of symbol sym can reach; the
\* units of other symbols are never called and get a fixed input
Choices(self, sym) ==
    {c \in [1..Len(self.strategies) -> [decide : Decisions, ok : BOOLEAN]] :
        \A i \in 1..Len(self.strategies) :
            self.strategies[i].symbol # sym => c[i] = [decide |-> "not_updated", ok |-> TRUE]}

\* the trace of a call that an exception left ends with the event "raised"
TraceOf(r) == r.trace \o (IF r.raised THEN <<[ev |-> "raised"]>> ELSE <<>>)

\* on_1min_bar is called with a bar of one of the minutes in times
OnBarAt(times) ==
    /\ \E sym \in FeedSymbols, t \in times, sh \in OrchBarShapes :
       \E choice \in Choices(orch, sym) :
       \E r \in {on_1min_bar(orch, MkBar(sym, t, sh), choice)} :
        /\ \A s \in DOMAIN r.self.aggregators : \A tf \in DOMAIN r.self.aggregators[s] :
              Len(r.self.aggregators[s][tf].bars_in_period) <= OrchMaxPeriodBars
        /\ orch' = r.self
        /\ orch_trace' = TraceOf(r)
    /\ UNCHANGED <<aggVars, rlVars, execVars, clientVars, thVars>>

OnBar == OnBarAt(OrchMinTime..OrchMaxTime)

NextOrch == OnBar

SpecOrch == InitOrch /\ [][NextOrch]_vars

----------------------------------------------------------------------------
(* SpecLife: the orchestrator is started and stopped, in any order and any *)
(* number of times, while the feed delivers bars and replay-complete       *)
(* notifications                                                           *)

LifeBar == OnBarAt({OrchMinTime + 1})

Start ==
    /\ \E outcome \in StartOutcomes, terminate_ok \in BOOLEAN :
       \E r \in {start(orch, outcome, terminate_ok)} :
         /\ orch' = r.self
         /\ orch_trace' = TraceOf(r)
    /\ UNCHANGED <<aggVars, rlVars, execVars, clientVars, thVars>>

Stop ==
    /\ \E terminate_ok \in BOOLEAN :
       \E r \in {stop(orch, terminate_ok)} :
         /\ orch' = r.self
         /\ orch_trace' = TraceOf(r)
    /\ UNCHANGED <<aggVars, rlVars, execVars, clientVars, thVars>>

\* the feed reads the system message "Finished ... replay"
ReplayComplete ==
    /\ ~IsNone(orch.feed.client)
    /\ orch' = set_live_mode(orch)
    /\ orch_trace' = <<[ev |-> "set_live_mode"]>>
    /\ UNCHANGED <<aggVars, rlVars, execVars, clientVars, thVars>>

FeedLoopEnds ==
    /\ ~IsNone(orch.feed.client)
    /\ \E terminate_ok \in BOOLEAN :
       \E r \in {feed_loop_ends(orch, terminate_ok)} :
         /\ orch' = r.self
         /\ orch_trace' = TraceOf(r)
    /\ UNCHANGED <<aggVars, rlVars, execVars, clientVars, thVars>>

NextLife == LifeBar \/ Start \/ Stop \/ ReplayComplete \/ FeedLoopEnds

SpecLife == InitOrch /\ [][NextLife]_vars

----------------------------------------------------------------------------
(* SpecShutdown: the orchestrator is started, the feed loop delivers bars  *)
(* while the feed is running, and a termination signal arrives at any      *)
(* time: between two records of the feed or while a bar is processed.      *)
(* After sys.exit the process takes no further step.                       *)

Exited == orch_trace # <<>> /\ orch_trace[Len(orch_trace)].ev = "sys_exit"

ShutdownStart ==
    /\ ~Exited
    /\ ~orch.is_running
    /\ Start

\* the feed loop: "if not self.is_running: break", then the bar goes to
\* on_1min_bar; an exception of the handler ends the loop (except
\* Exception, finally self.stop())
DeliverBar ==
    /\ ~Exited
    /\ orch.feed.is_running
    /\ \E sym \in FeedSymbols, sh \in OrchBarShapes :
       \E choice \in Choices(orch, sym) :
       \E r \in {on_1min_bar(orch, MkBar(sym, OrchMinTime + 1, sh), choice)} :
         /\ \A s \in DOMAIN r.self.aggregators : \A tf \in DOMAIN r.self.aggregators[s] :
              Len(r.self.aggregators[s][tf].bars_in_period) <= OrchMaxPeriodBars
         /\ IF r.raised
            THEN \E e \in {feed_loop_ends(r.self, TRUE)} :
                   /\ orch' = e.self
                   /\ orch_trace' = TraceOf(r) \o e.trace
            ELSE /\ orch' = r.self
                 /\ orch_trace' = r.trace
    /\ UNCHANGED <<aggVars, rlVars, execVars, clientVars, thVars>>

\* SIGINT or SIGTERM while the feed loop waits for the next record
SignalBetweenBars ==
    /\ ~Exited
    /\ orch.feed.is_running
    /\ \E terminate_ok \in BOOLEAN :
       \E h \in {signal_handler(orch, terminate_ok)} :
         /\ orch' = h.self
         /\ orch_trace' = <<[ev |-> "signal", bar |-> None]>> \o h.trace
    /\ UNCHANGED <<aggVars, rlVars, execVars, clientVars, thVars>>

\* SIGINT or SIGTERM while on_1min_bar processes a bar, after k turns of
\* its loop over the aggregators of the symbol: the handler runs in the
\* main thread between two instructions, and its SystemExit, which no
\* "except Exception" catches, leaves on_1min_bar and the feed loop
SignalDuringBar ==
    /\ ~Exited
    /\ orch.feed.is_running
    /\ \E sym \in DOMAIN orch.aggregators, sh \in OrchBarShapes, terminate_ok \in BOOLEAN :
       \E choice \in Choices(orch, sym), k \in 0..Len(orch.tf_order[sym]) :
       \E bar \in {MkBar(sym, OrchMinTime + 1, sh)} :
       \E r \in {on_1min_bar([orch EXCEPT !.tf_order[sym] = SubSeq(@, 1, k)], bar, choice)} :
       \E h \in {signal_handler([r.self EXCEPT !.tf_order = orch.tf_order], terminate_ok)} :
         /\ ~r.raised
         /\ \A s \in DOMAIN r.self.aggregators : \A tf \in DOMAIN r.self.aggregators[s] :
              Len(r.self.aggregators[s][tf].bars_in_period) <= OrchMaxPeriodBars
         /\ orch' = h.self
         /\ orch_trace' = <<[ev |-> "signal", bar |-> Some(bar)]>> \o r.trace \o h.trace
    /\ UNCHANGED <<aggVars, rlVars, execVars, clientVars, thVars>>

NextShutdown == ShutdownStart \/ DeliverBar \/ SignalBetweenBars \/ SignalDuringBar

SpecShutdown == InitOrch /\ [][NextShutdown]_vars

----------------------------------------------------------------------------
(* SpecRL: one RateLimiter; acquire and get_tokens are called at any time  *)
(* (by any thread: each runs under the lock), one wait_for_token call may  *)
(* be in progress, time passes, and the wall clock may be set back         *)

Timeouts == {None, Some(1), Some(3)}

InitRL ==
    /\ clock = 1
    /\ \E c \in RLConfigs :
         rl = RateLimiter(c.max_requests, c.period_seconds, c.burst_size, 1)
    /\ rl_call = [op |-> "init", tokens |-> 0, ret |-> TRUE]
    /\ rl_wait = None
    /\ rl_scen = ScenOff
    /\ AggUnused
    /\ OrchUnused
    /\ ExecUnused
    /\ ClientUnused
    /\ ThUnused

\* time passes
Tick ==
    /\ \E d \in 1..MaxTick :
         /\ clock + d <= MaxClock
         /\ clock' = clock + d
    /\ rl_wait' = IF IsNone(rl_wait) THEN rl_wait ELSE Some([Val(rl_wait) EXCEPT !.slept = TRUE])
    /\ UNCHANGED <<rl, rl_call, rl_scen>>
    /\ UNCHANGED <<aggVars, orchVars, execVars, clientVars, thVars>>

\* time.time() is the wall clock: it is set back (clock adjustment)
ClockSetBack ==
    /\ \E d \in 1..MaxTick :
         /\ clock - d >= 0
         /\ clock' = clock - d
    /\ rl_scen' = ScenOff
    /\ UNCHANGED <<rl, rl_call, rl_wait>>
    /\ UNCHANGED <<aggVars, orchVars, execVars, clientVars, thVars>>

Acquire ==
    /\ \E n \in 1..MaxAcquire :
         LET r == acquire(rl, n, clock) IN
         /\ rl' = r.self
         /\ rl_call' = [op |-> "acquire", tokens |-> n, ret |-> r.ret]
         /\ rl_scen' = ScenAfterAcquire(rl_scen, rl, n, clock)
    /\ UNCHANGED <<clock, rl_wait>>
    /\ UNCHANGED <<aggVars, orchVars, execVars, clientVars, thVars>>

GetTokens ==
    /\ LET r == get_tokens(rl, clock) IN
         /\ rl' = r.self
         /\ rl_call' = [op |-> "get_tokens", tokens |-> 0, ret |-> r.ret]
    /\ rl_scen' = ScenOff
    /\ UNCHANGED <<clock, rl_wait>>
    /\ UNCHANGED <<aggVars, orchVars, execVars, clientVars, thVars>>

\* wait_for_token is entered: start_time = time.time()
WaitStart ==
    /\ IsNone(rl_wait)
    /\ \E n \in 1..MaxAcquire, timeout \in Timeouts :
         rl_wait' = Some([tokens |-> n, timeout |-> timeout, start_time |-> clock,
                          slept |-> TRUE, attempts |-> 0])
    /\ UNCHANGED <<rl, clock, rl_call, rl_scen>>
    /\ UNCHANGED <<aggVars, orchVars, execVars, clientVars, thVars>>

\* one iteration of the loop of wait_for_token: acquire, then the timeout
\* test, then time.sleep(0.1)
WaitAttempt ==
    /\ ~IsNone(rl_wait)
    /\ Val(rl_wait).slept
    /\ LET w == Val(rl_wait)
           r == acquire(rl, w.tokens, clock)
           timed_out == ~IsNone(w.timeout) /\ clock - w.start_time >= Val(w.timeout)
       IN /\ rl' = r.self
          /\ rl_scen' = ScenAfterAcquire(rl_scen, rl, w.tokens, clock)
          /\ IF r.ret
             THEN /\ rl_call' = [op |-> "wait_for_token", tokens |-> w.tokens, ret |-> TRUE]
                  /\ rl_wait' = None
             ELSE IF timed_out
             THEN /\ rl_call' = [op |-> "wait_for_token", tokens |-> w.tokens, ret |-> FALSE]
                  /\ rl_wait' = None
             ELSE /\ rl_call' = [op |-> "acquire", tokens |-> w.tokens, ret |-> FALSE]
                  /\ rl_wait' = Some([w EXCEPT !.slept = FALSE, !.attempts = 1])
    /\ UNCHANGED clock
    /\ UNCHANGED <<aggVars, orchVars, execVars, clientVars, thVars>>

NextRL == Tick \/ ClockSetBack \/ Acquire \/ GetTokens \/ WaitStart \/ WaitAttempt

SpecRL == InitRL /\ [][NextRL]_vars

----------------------------------------------------------------------------
(* SpecWait: one thread calls wait_for_token, again and again, while other *)
(* threads acquire tokens at any time and the wall clock may be set back   *)
(* MaxSetBacks times during one call.  The thread that waits keeps running *)
(* and its time.sleep(0.1) returns: both steps of its loop are fair.       *)

\* wait_for_token is entered: start_time = time.time(); rl_call is what the
\* call has returned, nothing so far
WaitEnter ==
    /\ IsNone(rl_wait)
    /\ clock <= MaxClock
    /\ \E n \in 1..MaxAcquire, timeout \in Timeouts :
         rl_wait' = Some([tokens |-> n, timeout |-> timeout, start_time |-> clock,
                          slept |-> TRUE, attempts |-> 0, setbacks |-> 0])
    /\ rl_call' = [op |-> "init", tokens |-> 0, ret |-> TRUE]
    /\ UNCHANGED <<rl, clock, rl_scen>>
    /\ UNCHANGED <<aggVars, orchVars, execVars, clientVars, thVars>>

\* variant of the loop that sleeps again whatever time has elapsed
WaitTry_no_timeout ==
    /\ ~IsNone(rl_wait)
    /\ Val(rl_wait).slept
    /\ \E w \in {Val(rl_wait)} :
       \E r \in {acquire(rl, w.tokens, clock)} :
          /\ rl' = r.self
          /\ IF r.ret
             THEN /\ rl_call' = [op |-> "wait_for_token", tokens |-> w.tokens, ret |-> TRUE]
                  /\ rl_wait' = None
             ELSE /\ rl_call' = rl_call
                  /\ rl_wait' = Some([w EXCEPT !.slept = FALSE, !.attempts = 1])
    /\ UNCHANGED <<clock, rl_scen>>
    /\ UNCHANGED <<aggVars, orchVars, execVars, clientVars, thVars>>

\* one iteration of the loop of wait_for_token up to its return or its
\* sleep: acquire, then the timeout test
WaitTry ==
    /\ ~IsNone(rl_wait)
    /\ Val(rl_wait).slept
    /\ \E w \in {Val(rl_wait)} :
       \E r \in {acquire(rl, w.tokens, clock)} :
          /\ rl' = r.self
          /\ IF r.ret
             THEN /\ rl_call' = [op |-> "wait_for_token", tokens |-> w.tokens, ret |-> TRUE]
                  /\ rl_wait' = None
             ELSE IF ~IsNone(w.timeout) /\ clock - w.start_time >= Val(w.timeout)
             THEN /\ rl_call' = [op |-> "wait_for_token", tokens |-> w.tokens, ret |-> FALSE]
                  /\ rl_wait' = None
             ELSE /\ rl_call' = rl_call
                  /\ rl_wait' = Some([w EXCEPT !.slept = FALSE, !.attempts = 1])
    /\ UNCHANGED <<clock, rl_scen>>
    /\ UNCHANGED <<aggVars, orchVars, execVars, clientVars, thVars>>

\* time.sleep(0.1) of the loop returns: time has passed; a call without
\* timeout sleeps no further than MaxClock
WaitSleep ==
    /\ ~IsNone(rl_wait)
    /\ ~Val(rl_wait).slept
    /\ \E d \in 1..MaxTick :
         /\ IsNone(Val(rl_wait).timeout) => clock + d <= MaxClock
         /\ clock' = clock + d
    /\ rl_wait' = Some([Val(rl_wait) EXCEPT !.slept = TRUE])
    /\ UNCHANGED <<rl, rl_call, rl_scen>>
    /\ UNCHANGED <<aggVars, orchVars, execVars, clientVars, thVars>>

\* the wall clock is set back while the call is in progress
WaitSetBack ==
    /\ ~IsNone(rl_wait)
    /\ Val(rl_wait).setbacks < MaxSetBacks
    /\ \E d \in 1..MaxTick :
         /\ clock - d >= 0
         /\ clock' = clock - d
    /\ rl_wait' = Some([Val(rl_wait) EXCEPT !.setbacks = @ + 1])
    /\ UNCHANGED <<rl, rl_call, rl_scen>>
    /\ UNCHANGED <<aggVars, orchVars, execVars, clientVars, thVars>>

\* time passes between two calls
WaitIdle ==
    /\ IsNone(rl_wait)
    /\ clock < MaxClock
    /\ clock' = clock + 1
    /\ UNCHANGED <<rl, rl_call, rl_wait, rl_scen>>
    /\ UNCHANGED <<aggVars, orchVars, execVars, clientVars, thVars>>

\* another thread calls acquire
OtherAcquire ==
    /\ \E n \in 1..MaxAcquire :
       \E r \in {acquire(rl, n, clock)} :
         rl' = r.self
    /\ UNCHANGED <<clock, rl_call, rl_wait, rl_scen>>
    /\ UNCHANGED <<aggVars, orchVars, execVars, clientVars, thVars>>

NextWait == WaitEnter \/ WaitTry \/ WaitSleep \/ WaitSetBack \/ WaitIdle \/ OtherAcquire

SpecWait == InitRL /\ [][NextWait]_vars /\ WF_vars(WaitTry) /\ WF_vars(WaitSleep)

----------------------------------------------------------------------------
(* SpecStarve: one thread calls wait_for_token(n, timeout=None) while      *)
(* other threads call acquire at any time, for as long as they like.  The  *)
(* thread that waits keeps running and its time.sleep(0.1) returns: both   *)
(* steps of its loop are fair.  Time has no end here: the code reads       *)
(* time.time() only in the difference now - last_update, so the clock is   *)
(* counted from the last refill, and an elapsed time that already fills    *)
(* the bucket is not counted further.                                      *)

\* the least elapsed time after which _refill fills an empty bucket
FillTime(self) ==
    (Whole(self, self.burst_size) + self.max_requests - 1) \div self.max_requests

InitStarve ==
    /\ clock = 0
    /\ \E c \in RLConfigs :
         rl = RateLimiter(c.max_requests, c.period_seconds, c.burst_size, 0)
    /\ rl_call = [op |-> "init", tokens |-> 0, ret |-> TRUE]
    /\ rl_wait = None
    /\ rl_scen = ScenOff
    /\ AggUnused
    /\ OrchUnused
    /\ ExecUnused
    /\ ClientUnused
    /\ ThUnused

\* wait_for_token(n) is entered, without timeout: start_time is never used
StarveEnter ==
    /\ IsNone(rl_wait)
    /\ \E n \in 1..StarveMaxTokens :
         rl_wait' = Some([tokens |-> n, timeout |-> None, start_time |-> 0,
                          slept |-> TRUE, attempts |-> 0, setbacks |-> 0])
    /\ rl_call' = [op |-> "init", tokens |-> 0, ret |-> TRUE]
    /\ UNCHANGED <<rl, clock, rl_scen>>
    /\ UNCHANGED <<aggVars, orchVars, execVars, clientVars, thVars>>

\* time.sleep(0.1) of the loop returns: time has passed
StarveSleep ==
    /\ ~IsNone(rl_wait)
    /\ ~Val(rl_wait).slept
    /\ \E d \in 1..MaxTick :
         clock' = Min2(clock - rl.last_update + d, FillTime(rl))
    /\ rl' = [rl EXCEPT !.last_update = 0]
    /\ rl_wait' = Some([Val(rl_wait) EXCEPT !.slept = TRUE])
    /\ UNCHANGED <<rl_call, rl_scen>>
    /\ UNCHANGED <<aggVars, orchVars, execVars, clientVars, thVars>>

NextStarve == StarveEnter \/ WaitTry \/ StarveSleep \/ OtherAcquire

SpecStarve == InitStarve /\ [][NextStarve]_vars /\ WF_vars(WaitTry) /\ WF_vars(StarveSleep)

----------------------------------------------------------------------------
(* SpecThreads: NumThreads threads call acquire, get_tokens and            *)
(* wait_for_token of one RateLimiter at any time.  A call advances step by *)
(* step: taking self.lock, the reads and the writes of _refill, the test   *)
(* and the deduction of acquire, leaving the lock; between two attempts    *)
(* wait_for_token tests its timeout and sleeps without the lock.  The      *)
(* steps of the threads interleave in any order; time passes at any time:  *)
(* a sleep of 0.1 s may end within the tick of the clock it began in.      *)

Threads == 1..NumThreads

\* the numbers of tokens the threads ask for
ThreadTokens == {1, 2}

ThreadTimeouts == {None, Some(1)}

IdleThread ==
    [pc |-> "idle", op |-> "none", n |-> 0, timeout |-> None, start_time |-> 0,
     now |-> 0, new |-> 0, ret |-> FALSE, entry |-> <<>>]

\* RateLimiter(max_requests=2, period_seconds=2): one token per tick, burst 2
InitThreads ==
    /\ clock = 1
    /\ rl = RateLimiter(2, 2, None, 1)
    /\ rl_call = <<>>
    /\ rl_wait = <<>>
    /\ rl_scen = <<>>
    /\ rl_threads = [t \in Threads |-> IdleThread]
    /\ rl_lock = None
    /\ rl_granted = 0
    /\ AggUnused
    /\ OrchUnused
    /\ ExecUnused
    /\ ClientUnused

\* time passes
ThreadTick ==
    /\ clock < ThreadMaxClock
    /\ clock' = clock + 1
    /\ UNCHANGED <<rl, rl_threads, rl_lock, rl_granted>>
    /\ UNCHANGED <<rl_call, rl_wait, rl_scen>>
    /\ UNCHANGED <<aggVars, orchVars, execVars, clientVars>>

\* a thread calls acquire(n), get_tokens() or wait_for_token(n, timeout);
\* wait_for_token reads start_time = time.time(), kept here when there is
\* a timeout to test it against
ThreadCall ==
    /\ \E t \in Threads :
         /\ rl_threads[t].pc = "idle"
         /\ \/ \E n \in ThreadTokens :
                 rl_threads' = [rl_threads EXCEPT ![t] =
                                  [IdleThread EXCEPT !.pc = "lock", !.op = "acquire", !.n = n]]
            \/ rl_threads' = [rl_threads EXCEPT ![t] =
                                  [IdleThread EXCEPT !.pc = "lock", !.op = "get_tokens"]]
            \/ \E n \in ThreadTokens, timeout \in ThreadTimeouts :
                 rl_threads' = [rl_threads EXCEPT ![t] =
                                  [IdleThread EXCEPT !.pc = "lock", !.op = "wait_for_token",
                                                     !.n = n, !.timeout = timeout,
                                                     !.start_time =
                                                        IF IsNone(timeout) THEN 0 ELSE clock]]
    /\ UNCHANGED <<rl, clock, rl_lock, rl_granted>>
    /\ UNCHANGED <<rl_call, rl_wait, rl_scen>>
    /\ UNCHANGED <<aggVars, orchVars, execVars, clientVars>>

\* variant of "with self.lock" that enters without waiting for the lock
ThreadLock_no_wait ==
    /\ \E t \in Threads :
         /\ rl_threads[t].pc = "lock"
         /\ rl_lock' = Some(t)
         /\ rl_threads' = [rl_threads EXCEPT ![t].pc = "refill_read", ![t].entry = rl]
    /\ UNCHANGED <<rl, clock, rl_granted>>
    /\ UNCHANGED <<rl_call, rl_wait, rl_scen>>
    /\ UNCHANGED <<aggVars, orchVars, execVars, clientVars>>

\* with self.lock: the thread enters when no thread holds the lock; entry is
\* the limiter as the thread finds it
ThreadLock ==
    /\ \E t \in Threads :
         /\ rl_threads[t].pc = "lock"
         /\ IsNone(rl_lock)
         /\ rl_lock' = Some(t)
         /\ rl_threads' = [rl_threads EXCEPT ![t].pc = "refill_read", ![t].entry = rl]
    /\ UNCHANGED <<rl, clock, rl_granted>>
    /\ UNCHANGED <<rl_call, rl_wait, rl_scen>>
    /\ UNCHANGED <<aggVars, orchVars, execVars, clientVars>>

\* _refill: now = time.time(); elapsed, new_tokens and the new token count
\* are computed from the fields read
ThreadRefillRead ==
    /\ \E t \in Threads :
         /\ rl_threads[t].pc = "refill_read"
         /\ rl_threads' = [rl_threads EXCEPT ![t].pc = "refill_write",
                                             ![t].now = clock,
                                             ![t].new = _refill(rl, clock).tokens]
    /\ UNCHANGED <<rl, clock, rl_lock, rl_granted>>
    /\ UNCHANGED <<rl_call, rl_wait, rl_scen>>
    /\ UNCHANGED <<aggVars, orchVars, execVars, clientVars>>

\* _refill: self.tokens and self.last_update are written
ThreadRefillWrite ==
    /\ \E t \in Threads :
         /\ rl_threads[t].pc = "refill_write"
         /\ rl' = [rl EXCEPT !.tokens = rl_threads[t].new,
                             !.last_update = rl_threads[t].now]
         /\ rl_threads' = [rl_threads EXCEPT ![t].pc = "test", ![t].new = 0]
    /\ UNCHANGED <<clock, rl_lock, rl_granted>>
    /\ UNCHANGED <<rl_call, rl_wait, rl_scen>>
    /\ UNCHANGED <<aggVars, orchVars, execVars, clientVars>>

\* acquire: if self.tokens >= tokens, and the read of self.tokens for the
\* deduction; get_tokens: return self.tokens
ThreadTest ==
    /\ \E t \in Threads :
         /\ rl_threads[t].pc = "test"
         /\ rl_threads' =
              IF rl_threads[t].op = "get_tokens"
              THEN [rl_threads EXCEPT ![t].pc = "unlock", ![t].ret = rl.tokens]
              ELSE IF rl.tokens >= Whole(rl, rl_threads[t].n)
              THEN [rl_threads EXCEPT ![t].pc = "deduct",
                                      ![t].new = rl.tokens - Whole(rl, rl_threads[t].n)]
              ELSE [rl_threads EXCEPT ![t].pc = "unlock", ![t].ret = FALSE]
    /\ UNCHANGED <<rl, clock, rl_lock, rl_granted>>
    /\ UNCHANGED <<rl_call, rl_wait, rl_scen>>
    /\ UNCHANGED <<aggVars, orchVars, execVars, clientVars>>

\* acquire: self.tokens -= tokens is written; return True
ThreadDeduct ==
    /\ \E t \in Threads :
         /\ rl_threads[t].pc = "deduct"
         /\ rl' = [rl EXCEPT !.tokens = rl_threads[t].new]
         /\ rl_threads' = [rl_threads EXCEPT ![t].pc = "unlock", ![t].new = 0,
                                             ![t].ret = TRUE]
    /\ UNCHANGED <<clock, rl_lock, rl_granted>>
    /\ UNCHANGED <<rl_call, rl_wait, rl_scen>>
    /\ UNCHANGED <<aggVars, orchVars, execVars, clientVars>>

\* the thread leaves the lock: acquire and get_tokens return, and so does
\* wait_for_token if its acquire returned True; rl_granted counts the
\* tokens granted
ThreadUnlock ==
    /\ \E t \in Threads :
         /\ rl_threads[t].pc = "unlock"
         /\ rl_lock' = None
         /\ IF rl_threads[t].op = "get_tokens"
            THEN /\ rl_threads' = [rl_threads EXCEPT ![t] = IdleThread]
                 /\ rl_granted' = rl_granted
            ELSE IF rl_threads[t].ret
            THEN /\ rl_threads' = [rl_threads EXCEPT ![t] = IdleThread]
                 /\ rl_granted' = rl_granted + rl_threads[t].n
            ELSE /\ rl_threads' =
                      IF rl_threads[t].op = "acquire"
                      THEN [rl_threads EXCEPT ![t] = IdleThread]
                      ELSE [rl_threads EXCEPT ![t].pc = "timeout_test", ![t].entry = <<>>,
                                              ![t].now = 0]
                 /\ rl_granted' = rl_granted
    /\ UNCHANGED <<rl, clock>>
    /\ UNCHANGED <<rl_call, rl_wait, rl_scen>>
    /\ UNCHANGED <<aggVars, orchVars, execVars, clientVars>>

\* wait_for_token: the timeout test after a failed attempt; the call
\* returns False, or sleeps and makes its next attempt
ThreadTimeoutTest ==
    /\ \E t \in Threads :
         /\ rl_threads[t].pc = "timeout_test"
         /\ rl_threads' =
              IF /\ ~IsNone(rl_threads[t].timeout)
                 /\ clock - rl_threads[t].start_time >= Val(rl_threads[t].timeout)
              THEN [rl_threads EXCEPT ![t] = IdleThread]
              ELSE [rl_threads EXCEPT ![t].pc = "lock", ![t].now = 0, ![t].ret = FALSE]
    /\ UNCHANGED <<rl, clock, rl_lock, rl_granted>>
    /\ UNCHANGED <<rl_call, rl_wait, rl_scen>>
    /\ UNCHANGED <<aggVars, orchVars, execVars, clientVars>>

NextThreads ==
    \/ ThreadTick \/ ThreadCall \/ ThreadLock \/ ThreadRefillRead \/ ThreadRefillWrite
    \/ ThreadTest \/ ThreadDeduct \/ ThreadUnlock \/ ThreadTimeoutTest

SpecThreads == InitThreads /\ [][NextThreads]_vars

----------------------------------------------------------------------------
(* SpecExec: one SignalTranslator over one OrderManager over one client;   *)
(* flatten_position and should_enter_trade are called with any arguments   *)
(* and the venue answers each request in any way it can; the calls are     *)
(* made one after the other                                                *)

NoExecCall ==
    [op |-> "init", instrument |-> <<>>, account |-> None, signal_type |-> "",
     allow_reversals |-> FALSE, reports |-> <<>>, log |-> <<>>,
     ret |-> None, raised |-> None]

InitExec ==
    /\ \E client_account \in {None, Some("Sim101")}, account \in {None, Some("Sim102")} :
         translator = SignalTranslator(OrderManager(CrossTradeClient(client_account), account),
                                       1, TRUE)
    /\ venue_seq = 1
    /\ exec_call = NoExecCall
    /\ AggUnused
    /\ OrchUnused
    /\ RLUnused
    /\ ClientUnused
    /\ ThUnused

\* what the venue can report a moment after it reported r: the same, one
\* quantity changed, or nothing
ReportsAfter(r) ==
    {r, <<>>} \cup { [r EXCEPT ![i].quantity = q] : i \in 1..Len(r), q \in Quantities }

\* the outcomes of a second get_positions after a first one with outcome o
OutcomesAfter(o) ==
    { x \in GetPositionsOutcomes :
        x.kind = "ok" => o.kind = "ok" /\ x.positions \in ReportsAfter(o.positions) }

\* the outcomes of the submission a call makes, given the calls it makes
\* when the submission is accepted
SubmitOutcomesOf(log) ==
    IF \E i \in 1..Len(log) : log[i].call = "submit_order" THEN SubmitOutcomes ELSE {"found"}

\* the outcomes of the second get_positions a call makes, given the calls it
\* makes when the venue answers the second as the first
OutcomesAfterOf(o, log) ==
    IF Len(SelectSeq(log, LAMBDA e : e.call = "get_positions")) >= 2
    THEN OutcomesAfter(o) ELSE {o}

\* the venue answers the requests a call makes: a request that is not made
\* has the answer "found"
FlattenPosition ==
    /\ exec_call = NoExecCall
    /\ venue_seq <= MaxOrders
    /\ \E instrument \in SignalInstruments, account \in {None, Some("Sim102")},
          pos_outcome \in GetPositionsOutcomes :
       \E sub_outcome \in SubmitOutcomesOf(flatten_position(translator.order_manager,
                              instrument, account, pos_outcome, "found", venue_seq).log) :
       \E r \in {flatten_position(translator.order_manager, instrument, account,
                                  pos_outcome, sub_outcome, venue_seq)} :
            /\ translator' = [translator EXCEPT !.order_manager = r.self]
            /\ venue_seq' = IF r.placed THEN venue_seq + 1 ELSE venue_seq
            /\ exec_call' = [NoExecCall EXCEPT !.op = "flatten_position",
                                               !.instrument = instrument,
                                               !.account = account,
                                               !.reports = r.reports,
                                               !.log = r.log,
                                               !.ret = r.ret,
                                               !.raised = r.raised]
    /\ UNCHANGED <<aggVars, orchVars, rlVars, clientVars, thVars>>

ShouldEnterTrade ==
    /\ exec_call = NoExecCall
    /\ venue_seq <= MaxOrders
    /\ \E instrument \in SignalInstruments, signal_type \in SignalTypeInputs,
          allow_reversals \in BOOLEAN, check_outcome \in GetPositionsOutcomes :
       \E pos_outcome \in OutcomesAfterOf(check_outcome,
                              should_enter_trade(translator,
                                  [instrument |-> instrument, signal_type |-> signal_type],
                                  allow_reversals, check_outcome, check_outcome, "found",
                                  venue_seq).log) :
       \E sub_outcome \in SubmitOutcomesOf(should_enter_trade(translator,
                                  [instrument |-> instrument, signal_type |-> signal_type],
                                  allow_reversals, check_outcome, pos_outcome, "found",
                                  venue_seq).log) :
       \E r \in {should_enter_trade(translator,
                                  [instrument |-> instrument, signal_type |-> signal_type],
                                  allow_reversals, check_outcome, pos_outcome, sub_outcome,
                                  venue_seq)} :
            /\ translator' = r.self
            /\ venue_seq' = IF r.placed THEN venue_seq + 1 ELSE venue_seq
            /\ exec_call' = [NoExecCall EXCEPT !.op = "should_enter_trade",
                                               !.instrument = instrument,
                                               !.signal_type = signal_type,
                                               !.allow_reversals = allow_reversals,
                                               !.reports = r.reports,
                                               !.log = r.log,
                                               !.ret = r.ret,
                                               !.raised = r.raised]
    /\ UNCHANGED <<aggVars, orchVars, rlVars, clientVars, thVars>>

\* the caller has the result or the exception of its call; the next call
\* can be made
ExecReturn ==
    /\ exec_call # NoExecCall
    /\ exec_call' = NoExecCall
    /\ UNCHANGED <<translator, venue_seq>>
    /\ UNCHANGED <<aggVars, orchVars, rlVars, clientVars, thVars>>

NextExec == FlattenPosition \/ ShouldEnterTrade \/ ExecReturn

SpecExec == InitExec /\ [][NextExec]_vars

----------------------------------------------------------------------------
(* SpecSignal: one SignalTranslator over one OrderManager; signals are     *)
(* processed one by one and in batches, in any order; the venue answers    *)
(* each request in any way it can.  The position open at the venue on the  *)
(* instrument of a signal is part of the environment of the call.          *)
(* SpecCancel: the OrderManager is asked to cancel all working orders, any *)
(* number of times; the venue lists any working orders and answers each    *)
(* cancellation in any way it can.                                         *)

SignalPrices == {None, Some(5)}

SignalStops == {None, Some(4)}

\* the signals processed one by one
Signals ==
    { Signal(t, <<"ES", "12-25">>, p, s, None) :
        t \in SignalTypeInputs, p \in SignalPrices, s \in SignalStops }
    \cup { Signal("EXIT_LONG", <<"ES", "12-25">>, None, None, Some(2)) }

\* the signals of a batch
BatchSignals ==
    { Signal("LONG_ENTRY", <<"ES", "12-25">>, None, None, None),
      Signal("HOLD", <<"ES", "12-25">>, None, None, None),
      Signal("EXIT", <<"ES", "12-25">>, None, None, None) }

\* what the venue answers to the get_positions of an exit signal
ExitOutcomes ==
    { [kind |-> "ok", positions |-> <<>>, error |-> ""],
      [kind |-> "ok", error |-> "",
       positions |-> <<[instrument |-> <<"ES", "12-25">>, quantity |-> 3]>>],
      [kind |-> "raise", positions |-> <<>>, error |-> "RateLimitError"] }

\* how the venue answers the requests made for one signal of a batch
BatchOutcomes ==
    { [pos |-> p, sub |-> "found"] : p \in ExitOutcomes }
    \cup { [pos |-> CHOOSE p \in ExitOutcomes : p.positions # <<>>, sub |-> o] :
             o \in {"not_success", "error_margin"} }

NoSignalCall ==
    [op |-> "init", signals |-> <<>>, position |-> 0, instrument |-> None,
     outcomes |-> <<>>, results |-> <<>>, listed |-> <<>>, log |-> <<>>,
     ret |-> None, raised |-> None]

InitSignal ==
    /\ \E use_market_orders \in BOOLEAN :
         translator = SignalTranslator(OrderManager(CrossTradeClient(Some("Sim101")), None),
                                       1, use_market_orders)
    /\ venue_seq = 1
    /\ exec_call = NoSignalCall
    /\ AggUnused
    /\ OrchUnused
    /\ RLUnused
    /\ ClientUnused
    /\ ThUnused

\* process_signal(signal) while the venue holds position contracts of the
\* signal's instrument
ProcessSignal ==
    /\ exec_call = NoSignalCall
    /\ venue_seq <= MaxPlaced
    /\ \E signal \in Signals :
       \E position \in IF signal.signal_type \in {"LONG_ENTRY", "SHORT_ENTRY"}
                        THEN Quantities ELSE {0} :
       \E pos_outcome \in IF signal.signal_type = "EXIT" THEN ExitOutcomes
                          ELSE {CHOOSE o \in ExitOutcomes : o.positions = <<>> /\ o.kind = "ok"} :
       \E sub_outcome \in IF signal.signal_type \in SignalTypes THEN SubmitOutcomes
                          ELSE {"found"} :
       \E r \in {process_signal(translator, signal, None, pos_outcome, sub_outcome, venue_seq)} :
            /\ translator' = r.self
            /\ venue_seq' = IF r.placed THEN venue_seq + 1 ELSE venue_seq
            /\ exec_call' = [NoSignalCall EXCEPT !.op = "process_signal",
                                                 !.signals = <<signal>>,
                                                 !.position = position,
                                                 !.results = <<r>>,
                                                 !.log = r.log,
                                                 !.ret = r.ret,
                                                 !.raised = r.raised]
    /\ UNCHANGED <<aggVars, orchVars, rlVars, clientVars, thVars>>

\* process_signals_batch(signals), for batches that stay within MaxPlaced
ProcessSignalsBatch ==
    /\ exec_call = NoSignalCall
    /\ \E n \in 0..Min2(MaxBatch, MaxPlaced + 1 - venue_seq) :
       \E signals \in [1..n -> BatchSignals], outcomes \in [1..n -> BatchOutcomes] :
       \E r \in {process_signals_batch(translator, signals, outcomes, venue_seq)} :
            /\ translator' = r.self
            /\ venue_seq' = r.id
            /\ exec_call' = [NoSignalCall EXCEPT !.op = "process_signals_batch",
                                                 !.signals = signals,
                                                 !.results = r.results,
                                                 !.log = r.log,
                                                 !.ret = r.ret,
                                                 !.raised = r.raised]
    /\ UNCHANGED <<aggVars, orchVars, rlVars, clientVars, thVars>>

\* order_manager.cancel_all_orders(instrument)
CancelAllOrders ==
    /\ exec_call = NoSignalCall
    /\ \E instrument \in {None} \cup { Some(i) : i \in SignalInstruments },
          orders_outcome \in GetOrdersOutcomes,
          outcomes \in [1..MaxWorking -> CancelOutcomes] :
       \E r \in {cancel_all_orders(translator.order_manager, instrument, None,
                                   orders_outcome, outcomes)} :
            /\ translator' = [translator EXCEPT !.order_manager = r.self]
            /\ exec_call' = [NoSignalCall EXCEPT !.op = "cancel_all_orders",
                                                 !.instrument = instrument,
                                                 !.outcomes = outcomes,
                                                 !.listed = r.listed,
                                                 !.log = r.log,
                                                 !.ret = r.ret,
                                                 !.raised = r.raised]
    /\ UNCHANGED venue_seq
    /\ UNCHANGED <<aggVars, orchVars, rlVars, clientVars, thVars>>

\* the caller has the result or the exception of its call
SignalReturn ==
    /\ exec_call # NoSignalCall
    /\ exec_call' = NoSignalCall
    /\ UNCHANGED <<translator, venue_seq>>
    /\ UNCHANGED <<aggVars, orchVars, rlVars, clientVars, thVars>>

NextSignal == ProcessSignal \/ ProcessSignalsBatch \/ SignalReturn

SpecSignal == InitSignal /\ [][NextSignal]_vars

InitCancel ==
    /\ translator = SignalTranslator(OrderManager(CrossTradeClient(Some("Sim101")), None),
                                     1, TRUE)
    /\ venue_seq = 1
    /\ exec_call = NoSignalCall
    /\ AggUnused
    /\ OrchUnused
    /\ RLUnused
    /\ ClientUnused
    /\ ThUnused

NextCancel == CancelAllOrders \/ SignalReturn

SpecCancel == InitCancel /\ [][NextCancel]_vars

----------------------------------------------------------------------------
(* SpecClient: one CrossTradeClient; its operations are called one after   *)
(* the other at any time, and the venue answers each request in any way.   *)
(* A call advances attempt by attempt: the retry decorator sleeps between  *)
(* two attempts.                                                           *)

IdleTicks == {10, 50}

InitClient ==
    /\ \E rate_limiter \in ClientLimiters :
         api_client = CrossTradeClientWith(Some("Sim101"), rate_limiter)
    /\ client_now = 0
    /\ client_call = IdleCall
    /\ AggUnused
    /\ OrchUnused
    /\ RLUnused
    /\ ExecUnused
    /\ ThUnused

\* time passes between two calls
ClientTick ==
    /\ client_call.phase = "idle"
    /\ client_now <= MaxNow
    /\ \E d \in IdleTicks : client_now' = client_now + d
    /\ UNCHANGED <<api_client, client_call>>
    /\ UNCHANGED <<aggVars, orchVars, rlVars, execVars, thVars>>

\* an operation is called: the decorator starts with tries attempts
ClientCall ==
    /\ client_call.phase = "idle"
    /\ client_now <= MaxNow
    /\ \E op \in ClientOps :
         client_call' = [IdleCall EXCEPT !.op = op, !.phase = "call", !._tries = Tries]
    /\ UNCHANGED <<api_client, client_now>>
    /\ UNCHANGED <<aggVars, orchVars, rlVars, execVars, thVars>>

\* one attempt of the decorated method: its first _request and, for every
\* method but submit_order, the decorator's reaction to the result
ClientAttempt ==
    /\ client_call.phase = "call"
    /\ \E response \in Responses :
       \E r \in {_request(api_client, MethodOf(client_call.op), response, client_now)} :
         /\ api_client' = r.self
         /\ IF client_call.op = "submit_order"
            THEN LET body_error ==
                         IF IsNone(r.raised) /\ ~response.success
                         THEN Some(Error("OrderError", None, response.text))
                         ELSE r.raised
                     raised == WrapOrderError(body_error)
                 IN \E a \in {retry(raised, client_call._tries)} :
                     /\ client_now' = r.now + a.slept
                     /\ client_call' =
                          IF IsNone(raised)
                          THEN [client_call EXCEPT
                                  !.phase = "get_orders", !.inner_tries = Tries,
                                  !.log = @ \o r.log]
                          ELSE [client_call EXCEPT
                                  !.phase = IF a.done THEN "done" ELSE "call",
                                  !._tries = a._tries,
                                  !.log = @ \o r.log
                                            \o <<AttemptEvent("submit_order", raised)>>
                                            \o SleepEvents(a),
                                  !.raised = IF a.done THEN raised ELSE None]
            ELSE \E a \in {retry(r.raised, client_call._tries)} :
                     /\ client_now' = r.now + a.slept
                     /\ client_call' =
                          [client_call EXCEPT
                             !.phase = IF a.done THEN "done" ELSE "call",
                             !._tries = a._tries,
                             !.log = @ \o r.log
                                       \o <<AttemptEvent(client_call.op, r.raised)>>
                                       \o SleepEvents(a),
                             !.ret = IF a.done THEN r.ret ELSE None,
                             !.raised = IF a.done THEN r.raised ELSE None]
    /\ UNCHANGED <<aggVars, orchVars, rlVars, execVars, thVars>>

\* submit_order after an accepted placement: one attempt of the decorated
\* get_orders it calls; when get_orders raises, the except clause of
\* submit_order turns the exception into an OrderError
ClientGetOrders ==
    /\ client_call.phase = "get_orders"
    /\ \E response \in Responses :
       \E r \in {_request(api_client, "GET", response, client_now)} :
       \E a \in {retry(r.raised, client_call.inner_tries)} :
         /\ api_client' = r.self
         /\ client_now' = r.now + a.slept
         /\ client_call' =
              IF ~a.done
              THEN [client_call EXCEPT
                      !.inner_tries = a._tries,
                      !.log = @ \o r.log \o <<AttemptEvent("get_orders", r.raised)>>
                                \o SleepEvents(a)]
              ELSE [client_call EXCEPT
                      !.phase = "done",
                      !.inner_tries = a._tries,
                      !.log = @ \o r.log \o <<AttemptEvent("get_orders", r.raised)>>
                                \o <<AttemptEvent("submit_order", WrapOrderError(r.raised))>>,
                      !.ret = IF IsNone(r.raised) THEN Some("order") ELSE None,
                      !.raised = WrapOrderError(r.raised)]
    /\ UNCHANGED <<aggVars, orchVars, rlVars, execVars, thVars>>

\* the caller has taken the result
ClientReturn ==
    /\ client_call.phase = "done"
    /\ client_call' = IdleCall
    /\ UNCHANGED <<api_client, client_now>>
    /\ UNCHANGED <<aggVars, orchVars, rlVars, execVars, thVars>>

NextClient == ClientTick \/ ClientCall \/ ClientAttempt \/ ClientGetOrders \/ ClientReturn

SpecClient == InitClient /\ [][NextClient]_vars

----------------------------------------------------------------------------
(* Properties of the Bar Aggregator *)

\* the OHLCV aggregate of a non-empty sequence of bars
AggregateOf(bars) ==
    [open |-> bars[1].open, high |-> MaxHigh(bars), low |-> MinLow(bars),
     close |-> bars[Len(bars)].close, volume |-> SumVolume(bars)]

OHLCV(b) == [open |-> b.open, high |-> b.high, low |-> b.low, close |-> b.close,
             volume |-> b.volume]

SameBucket(t1, t2, pm) == _floor_to_period(t1, pm) = _floor_to_period(t2, pm)

IsLastOfBucket(t, pm) == ~SameBucket(t, t + 1, pm)

\* C1: in a run of N consecutive one-minute bars that starts on a window
\* boundary, exactly floor(N/W) completed bars have been returned, and a
\* completed bar is the aggregate of its W member bars (the last W bars fed)
C1_Claim ==
    /\ run_emitted = run_n \div period_minutes(agg)
    /\ ~IsNone(agg_call.ret) =>
          /\ Len(run_recent) = period_minutes(agg)
          /\ OHLCV(Val(agg_call.ret)) = AggregateOf(run_recent)

\* C2: in such a run none of the first W calls returns a completed bar; the
\* call for bar W+1 returns the first window, built from bars 1..W only, and
\* bar W+1 is the only bar of the period now in progress
C2_Claim ==
    /\ run_n <= period_minutes(agg) => run_emitted = 0
    /\ run_n >= period_minutes(agg) + 1 => run_first = period_minutes(agg) + 1
    /\ run_n = period_minutes(agg) + 1 =>
          /\ ~IsNone(agg_call.ret)
          /\ agg.bars_in_period = <<Val(agg_call.bar)>>
          /\ Val(agg_call.ret).date = run_start

\* C3: a call that accepts a bar which is the last bar of its calendar bucket
\* returns a completed bar that includes this bar, and leaves the period
\* state reset
C3_Claim ==
    (/\ ~IsNone(agg_call.bar)
     /\ ~agg_call.raised
     /\ IsLastOfBucket(Val(agg_call.bar).date, period_minutes(agg)))
    => /\ ~IsNone(agg_call.ret)
       /\ Val(agg_call.ret).close = Val(agg_call.bar).close
       /\ Val(agg_call.ret).date_l = Val(agg_call.bar).date_l
       /\ IsNone(agg.period_start)
       /\ IsNone(agg.current_bar)
       /\ agg.bars_in_period = <<>>

\* C4: the bars accumulated into a period all lie in the calendar bucket of
\* the bar that started the period, and the period's OHLCV is the aggregate
\* of exactly those bars; this holds of the period in progress and of every
\* completed bar returned, whatever the order and gaps of the timestamps
PeriodWithinBucket(bars, cur, pm) ==
    /\ bars # <<>>
    /\ \A i \in 1..Len(bars) : SameBucket(bars[i].date, bars[1].date, pm)
    /\ cur.date = bars[1].date
    /\ OHLCV(cur) = AggregateOf(bars)

C5_SymbolMismatch ==
    [][ (~IsNone(agg_call'.bar) /\ Val(agg_call'.bar).symbol # agg.symbol)
          => (/\ agg_call'.raised
              /\ agg'.period_start = agg.period_start
              /\ agg'.current_bar = agg.current_bar
              /\ agg'.bars_in_period = agg.bars_in_period) ]_vars

\* add_bar raised on a foreign bar while a period was in progress
C5_Witness ==
    /\ agg_call.raised
    /\ Val(agg_call.bar).symbol # agg.symbol
    /\ Len(agg.bars_in_period) >= 2

\* C24: every completed bar returned by add_bar carries a period-open
\* timestamp on a calendar boundary of its aggregator: the timestamp is the
\* floor of itself to the period, whatever bar started the period
C24_CalendarAligned ==
    ~IsNone(agg_call.ret) =>
        Val(agg_call.ret).date =
            _floor_to_period(Val(agg_call.ret).date, period_minutes(agg))

\* C25: a call that accepts a bar of a later calendar bucket than the one of
\* the period in progress returns the completed bar of the bucket left: the
\* bar returned is built from exactly the bars accumulated before the call
C25_BucketLeftEmitted ==
    [][ (/\ ~IsNone(agg.period_start)
         /\ ~IsNone(agg_call'.bar)
         /\ ~agg_call'.raised
         /\ agg_call' # agg_call
         /\ _floor_to_period(Val(agg_call'.bar).date, period_minutes(agg))
              > _floor_to_period(Val(agg.period_start), period_minutes(agg)))
        => (/\ ~IsNone(agg_call'.ret)
            /\ agg_call'.closed = agg.bars_in_period) ]_vars

\* C35: for every bar of a calendar bucket that the second aggregator has
\* read from the first bar of the bucket in the stream on, the two
\* aggregators return the same: both no bar, or the same completed bar
C35_Reproducible ==
    (/\ ~IsNone(agg_call.bar)
     /\ agg_late_call.started # 0
     /\ agg_late_call.started <= agg_late_call.bucket_first)
    => agg_late_call.ret = agg_call.ret

----------------------------------------------------------------------------
(* Properties of the Orchestrator *)

TraceEvents(kinds) == {i \in 1..Len(orch_trace) : orch_trace[i].ev \in kinds}

ExecutionEvents == {"submit_market_order", "flatten_position", "dry_run_log"}

\* C6: a decision unit only receives completed bars that are labelled with
\* its own symbol and built from one-minute bars of its own symbol; every
\* aggregator only holds bars of its own symbol; every signal executed for a
\* unit was computed from a bar of the unit's symbol and names that symbol
C6_Isolation ==
    /\ \A i \in TraceEvents({"on_bar"}) :
         LET e == orch_trace[i]
             unit == orch.strategies[e.unit]
         IN /\ e.bar.symbol = unit.symbol
            /\ \A k \in 1..Len(e.members) : e.members[k].symbol = unit.symbol
    /\ \A sym \in DOMAIN orch.aggregators : \A tf \in DOMAIN orch.aggregators[sym] :
         LET a == orch.aggregators[sym][tf] IN
         /\ a.symbol = sym
         /\ \A k \in 1..Len(a.bars_in_period) : a.bars_in_period[k].symbol = sym
    /\ \A i \in TraceEvents(ExecutionEvents) :
         LET e == orch_trace[i]
             unit == orch.strategies[e.unit]
         IN /\ e.signal.origin = unit.symbol
            /\ e.signal.symbol = unit.symbol

\* the unit of X received a completed bar and its signal was executed while
\* a period of Y was in progress (the two symbols' bars were interleaved)
C6_Witness ==
    /\ \E i \in TraceEvents({"on_bar"}) : orch.strategies[orch_trace[i].unit].symbol = "X"
    /\ \E i \in TraceEvents(ExecutionEvents) : orch.strategies[orch_trace[i].unit].symbol = "X"
    /\ "Y" \in DOMAIN orch.aggregators
    /\ \E tf \in DOMAIN orch.aggregators["Y"] : orch.aggregators["Y"][tf].bars_in_period # <<>>

\* the event at position i is directly followed by an event of one of kinds
FollowedBy(i, kinds) == i < Len(orch_trace) /\ orch_trace[i + 1].ev \in kinds

\* C11: in dry-run mode no call of on_1min_bar invokes the order manager,
\* whatever the bars and the signals: there is no submit or flatten event,
\* and every signal a decision unit returned is logged as it is
C11_DryRun ==
    orch.dry_run =>
        /\ TraceEvents({"submit_market_order", "flatten_position"}) = {}
        /\ \A i \in TraceEvents({"on_bar"}) :
             ~IsNone(orch_trace[i].signal) =>
                /\ FollowedBy(i, {"dry_run_log"})
                /\ orch_trace[i + 1].signal = Val(orch_trace[i].signal)

\* in dry-run mode a unit returned an entry signal, which was logged
C11_Witness ==
    /\ orch.dry_run
    /\ \E i \in TraceEvents({"dry_run_log"}) : orch_trace[i].signal.action = "entry"

\* the positions of the trace where a bar is fed to an aggregator
FedEvents == TraceEvents({"add_bar"})

\* C18: a call of on_1min_bar with a bar of a tracked symbol feeds the bar
\* exactly once to every aggregator registered for the symbol, and to no
\* aggregator of another symbol
C18_EveryAggregator ==
    FedEvents # {} =>
        LET first == orch_trace[1] IN
        /\ \A i \in FedEvents :
             orch_trace[i].symbol = first.symbol /\ orch_trace[i].bar = first.bar
        /\ \A tf \in DOMAIN orch.aggregators[first.symbol] :
             Cardinality({i \in FedEvents : orch_trace[i].timeframe = tf}) = 1

\* C19: a bar completed for (symbol, timeframe) is passed exactly once to
\* every decision unit bound to that pair, and to no other decision unit
C19_EveryUnit ==
    /\ \A c \in TraceEvents({"completed"}) :
         \A u \in 1..Len(orch.strategies) :
            StrategyMatches(orch.strategies[u], orch_trace[c].symbol,
                            orch_trace[c].timeframe)
            => Cardinality({i \in TraceEvents({"on_bar"}) :
                              /\ orch_trace[i].unit = u
                              /\ orch_trace[i].bar = orch_trace[c].bar
                              /\ orch_trace[i].timeframe = orch_trace[c].timeframe}) = 1
    /\ \A i \in TraceEvents({"on_bar"}) :
         /\ StrategyMatches(orch.strategies[orch_trace[i].unit],
                            orch_trace[i].bar.symbol, orch_trace[i].timeframe)
         /\ \E c \in TraceEvents({"completed"}) :
              /\ orch_trace[c].bar = orch_trace[i].bar
              /\ orch_trace[c].timeframe = orch_trace[i].timeframe

\* C30: when a decision unit raises while it processes a completed bar, the
\* exception does not leave on_1min_bar towards the feed, every aggregator
\* of the symbol is still fed the one-minute bar, and every other decision
\* unit bound to the completed bar still receives it
C30_Isolated ==
    \A i \in TraceEvents({"on_bar"}) :
        orch_trace[i].raised =>
            /\ TraceEvents({"raised"}) = {}
            /\ \A tf \in DOMAIN orch.aggregators[orch_trace[i].bar.symbol] :
                 \E f \in FedEvents : orch_trace[f].timeframe = tf
            /\ \A u \in 1..Len(orch.strategies) :
                 StrategyMatches(orch.strategies[u], orch_trace[i].bar.symbol,
                                 orch_trace[i].timeframe)
                 => \E j \in TraceEvents({"on_bar"}) :
                      /\ orch_trace[j].unit = u
                      /\ orch_trace[j].bar = orch_trace[i].bar

\* C33: every decision unit created at startup is bound to a (symbol,
\* timeframe) pair for which the orchestrator holds a Bar Aggregator
C33_UnitHasAggregator ==
    \A i \in 1..Len(orch.strategies) :
        /\ orch.strategies[i].symbol \in DOMAIN orch.aggregators
        /\ orch.strategies[i].timeframe \in DOMAIN orch.aggregators[orch.strategies[i].symbol]
        /\ orch.aggregators[orch.strategies[i].symbol][orch.strategies[i].timeframe].target_tf
             = orch.strategies[i].instance.timeframe

\* C38: after a call of on_1min_bar in which the order of a decision unit's
\* entry signal failed (the order-manager call raised), that decision unit
\* is not in the long state
C38_NoPhantomPosition ==
    \A k \in TraceEvents({"submit_market_order"}) :
        (/\ ~orch_trace[k].ok
         /\ orch_trace[k].signal.action = "entry")
        => IsNone(orch.strategies[orch_trace[k].unit].instance.position)

\* C20: in every reachable state, a call of on_1min_bar with a bar of a
\* symbol that has no aggregator returns without an exception, leaves the
\* orchestrator (aggregators, decision units) as it was and makes no
\* aggregator, decision-unit or order-manager call
C20_UnknownDropped ==
    \A sym \in FeedSymbols \ DOMAIN orch.aggregators :
    \A choice \in Choices(orch, sym) :
    \A t \in OrchMinTime..OrchMaxTime, sh \in OrchBarShapes :
        on_1min_bar(orch, MkBar(sym, t, sh), choice)
          = [self |-> orch,
             trace |-> <<[ev |-> "untracked", symbol |-> sym]>>,
             raised |-> FALSE]

\* a bar of an untracked symbol has just been dropped while a period of a
\* tracked symbol was in progress
C20_Witness ==
    /\ orch_trace = <<[ev |-> "untracked", symbol |-> "Z"]>>
    /\ \E sym \in DOMAIN orch.aggregators : \E tf \in DOMAIN orch.aggregators[sym] :
         orch.aggregators[sym][tf].bars_in_period # <<>>

----------------------------------------------------------------------------
(* Properties of wait_for_token *)

WaitingFinite == ~IsNone(rl_wait) /\ ~IsNone(Val(rl_wait).timeout)

\* C26: a wait_for_token call with a finite timeout returns; the call
\* returns only from an acquire attempt of its own, True exactly if that
\* attempt succeeded, and False only when the timeout had elapsed since the
\* call was entered; it goes to sleep only after an attempt that failed
\* before the timeout had elapsed
C26_Terminates ==
    /\ [][ (~IsNone(rl_wait) /\ IsNone(rl_wait')) =>
             /\ Val(rl_wait).slept
             /\ rl_call'.op = "wait_for_token"
             /\ rl_call'.ret = acquire(rl, Val(rl_wait).tokens, clock).ret
             /\ ~rl_call'.ret =>
                  /\ ~IsNone(Val(rl_wait).timeout)
                  /\ clock - Val(rl_wait).start_time >= Val(Val(rl_wait).timeout) ]_vars
    /\ [][ (/\ WaitingFinite
            /\ ~IsNone(rl_wait')
            /\ Val(rl_wait).slept
            /\ ~Val(rl_wait').slept) =>
             /\ ~acquire(rl, Val(rl_wait).tokens, clock).ret
             /\ clock - Val(rl_wait).start_time < Val(Val(rl_wait).timeout) ]_vars
    /\ WaitingFinite ~> IsNone(rl_wait)

\* a call for two tokens has returned False, its timeout elapsed, at a time
\* later than MaxClock
C26_Witness ==
    /\ IsNone(rl_wait)
    /\ rl_call = [op |-> "wait_for_token", tokens |-> 2, ret |-> FALSE]
    /\ clock > MaxClock

\* C40: a wait_for_token call without timeout for no more tokens than
\* burst_size returns, whatever the other threads acquire meanwhile; a call
\* for more tokens than burst_size never returns
C40_NoStarvation ==
    /\ (~IsNone(rl_wait) /\ Val(rl_wait).tokens <= rl.burst_size) ~> IsNone(rl_wait)
    /\ [][(~IsNone(rl_wait) /\ Val(rl_wait).tokens > rl.burst_size)
            => ~IsNone(rl_wait')]_vars

----------------------------------------------------------------------------
(* Properties of the RateLimiter under concurrent callers *)

\* what the call of a thread does when it runs alone on the limiter it
\* found when it took the lock
Atomic(th) ==
    IF th.op = "get_tokens" THEN get_tokens(th.entry, th.now)
    ELSE acquire(th.entry, th.n, th.now)

\* C27: under every interleaving of the steps of the threads, a thread that
\* is about to leave the lock has changed the limiter, and has the result,
\* exactly as its refill and deduction done in one step on the limiter it
\* found; no two threads are past the lock at a time; and the tokens
\* granted so far are no more than the burst plus what the time elapsed
\* has refilled
C27_Atomic ==
    /\ \A t \in Threads :
         rl_threads[t].pc = "unlock" =>
            /\ rl = Atomic(rl_threads[t]).self
            /\ rl_threads[t].ret = Atomic(rl_threads[t]).ret
    /\ \A t, u \in Threads :
         (/\ rl_threads[t].pc \in {"refill_read", "refill_write", "test", "deduct", "unlock"}
          /\ rl_threads[u].pc \in {"refill_read", "refill_write", "test", "deduct", "unlock"})
         => t = u
    /\ Whole(rl, rl_granted) <= Whole(rl, rl.burst_size) + (clock - 1) * rl.max_requests

\* a thread has taken tokens and is about to leave the lock while another
\* thread waits for the lock and tokens were granted before
C27_Witness ==
    /\ \E t, u \in Threads :
         /\ rl_threads[t].pc = "unlock"
         /\ rl_threads[t].op # "get_tokens"
         /\ rl_threads[t].ret = TRUE
         /\ rl_threads[u].pc = "lock"
    /\ rl_granted >= 2
    /\ clock > 1

----------------------------------------------------------------------------
(* Properties of the Signal Translator and the Order Manager *)

\* the requests of the orders a call has sent to the venue, in order
Submitted(log) == SelectSeq(log, LAMBDA e : e.call = "submit_order")

IsEntry(signal) == signal.signal_type \in {"LONG_ENTRY", "SHORT_ENTRY"}

\* C21: processing a long-entry signal while a long position is open on the
\* instrument, or a short-entry signal while a short position is open,
\* submits no order
C21_EntrySuppressed ==
    (/\ exec_call.op = "process_signal"
     /\ \/ /\ exec_call.signals[1].signal_type = "LONG_ENTRY"
           /\ exec_call.position > 0
        \/ /\ exec_call.signals[1].signal_type = "SHORT_ENTRY"
           /\ exec_call.position < 0)
    => Submitted(exec_call.log) = <<>>

\* the errors the error taxonomy classifies as failures of one order or one
\* signal: OrderError, its classified subtype InsufficientMarginError, and
\* ValueError
BusinessErrors == {"OrderError", "InsufficientMarginError", "ValueError"}

\* C22: process_signals_batch processes the signals in order; as long as no
\* signal fails with an unexpected error it goes on, and returns one result
\* per signal: the order of a signal that succeeded, None for a signal that
\* failed with a business error; the first unexpected error ends the batch
\* and is raised to the caller
C22_Batch ==
    exec_call.op = "process_signals_batch" =>
        LET results == exec_call.results
            unexpected == { i \in 1..Len(results) :
                              /\ ~IsNone(results[i].raised)
                              /\ Val(results[i].raised) \notin BusinessErrors }
        IN IF unexpected = {}
           THEN /\ IsNone(exec_call.raised)
                /\ Len(results) = Len(exec_call.signals)
                /\ Len(Val(exec_call.ret)) = Len(exec_call.signals)
                /\ \A i \in 1..Len(results) :
                     Val(exec_call.ret)[i] =
                        IF IsNone(results[i].raised) THEN results[i].ret ELSE None
           ELSE /\ unexpected = {Len(results)}
                /\ exec_call.raised = results[Len(results)].raised
                /\ IsNone(exec_call.ret)

\* C34: when process_signal fails for insufficient margin on one signal of
\* a batch, the batch does not end with that error: the signals after it
\* are processed, and the list returned holds None for the signal
C34_MarginContinues ==
    exec_call.op = "process_signals_batch" =>
        \A i \in 1..Len(exec_call.results) :
            exec_call.results[i].raised = Some("InsufficientMarginError") =>
                /\ exec_call.raised # Some("InsufficientMarginError")
                /\ i < Len(exec_call.signals) => Len(exec_call.results) > i
                /\ ~IsNone(exec_call.ret) => Val(exec_call.ret)[i] = None

\* C23: an entry signal sends exactly one order: a stop-market order at the
\* stop price if the signal has one; else a market order if the translator
\* uses market orders or the signal has no price; else a limit order at the
\* price of the signal
C23_OrderType ==
    (exec_call.op = "process_signal" /\ IsEntry(exec_call.signals[1])) =>
        LET signal == exec_call.signals[1]
            sent == Submitted(exec_call.log)
        IN /\ Len(sent) = 1
           /\ sent[1].request.action =
                 (IF signal.signal_type = "LONG_ENTRY" THEN "BUY" ELSE "SELL_SHORT")
           /\ IF ~IsNone(signal.stop_price)
              THEN /\ sent[1].request.orderType = "STOP_MARKET"
                   /\ sent[1].request.stopPrice = signal.stop_price
                   /\ IsNone(sent[1].request.limitPrice)
              ELSE IF translator.use_market_orders \/ IsNone(signal.price)
              THEN /\ sent[1].request.orderType = "MARKET"
                   /\ IsNone(sent[1].request.stopPrice)
                   /\ IsNone(sent[1].request.limitPrice)
              ELSE /\ sent[1].request.orderType = "LIMIT"
                   /\ sent[1].request.limitPrice = signal.price
                   /\ IsNone(sent[1].request.stopPrice)

\* a long-entry signal with a price and a stop price was processed by a
\* translator that does not use market orders, and its order was accepted
C23_Witness ==
    /\ exec_call.op = "process_signal"
    /\ exec_call.signals[1].signal_type = "LONG_ENTRY"
    /\ ~IsNone(exec_call.signals[1].price)
    /\ ~IsNone(exec_call.signals[1].stop_price)
    /\ ~translator.use_market_orders
    /\ ~IsNone(exec_call.ret)

\* C29: a process_signal call that returns an order (submitted by
\* submit_market_order, submit_limit_order or submit_stop_market_order)
\* leaves the cache with the order under its id and every other entry as it
\* was; a call that raises leaves the cache as it was
C29_Cache ==
    [][ exec_call'.op = "process_signal" =>
          LET before == translator.order_manager._orders
              after == translator'.order_manager._orders
          IN IF ~IsNone(exec_call'.raised)
             THEN after = before
             ELSE LET order == Val(exec_call'.ret) IN
                  /\ order.orderId \in DOMAIN after
                  /\ after[order.orderId] = order
                  /\ DOMAIN after = DOMAIN before \cup {order.orderId}
                  /\ \A id \in DOMAIN before \ {order.orderId} : after[id] = before[id]
      ]_vars

\* a limit order was returned and cached next to an order cached before
C29_Witness ==
    /\ exec_call.op = "process_signal"
    /\ ~IsNone(exec_call.ret)
    /\ Val(exec_call.ret).orderType = "LIMIT"
    /\ Cardinality(DOMAIN translator.order_manager._orders) = 2
    /\ translator.order_manager._orders[Val(exec_call.ret).orderId] = Val(exec_call.ret)

\* the cancellations a call has attempted: the ids, in order
Attempted(log) ==
    LET c == SelectSeq(log, LAMBDA e : e.call = "cancel_order")
    IN [i \in 1..Len(c) |-> c[i].order_id]

\* the orders of the list the call is to cancel
Targets(listed, instrument) ==
    IF IsNone(instrument) THEN listed
    ELSE SelectSeq(listed, LAMBDA o : o.instrument = Val(instrument))

RECURSIVE CancelledOf(_, _, _)
CancelledOf(targets, outcomes, i) ==
    IF i > Len(targets) THEN <<>>
    ELSE (IF outcomes[i] = "cancelled" THEN <<[targets[i] EXCEPT !.state = "CANCELLED"]>>
          ELSE <<>>) \o CancelledOf(targets, outcomes, i + 1)

\* C28: once the venue has listed the working orders, cancel_all_orders
\* attempts the cancellation of each of them that is of the given
\* instrument (of each of them when none is given), once and in order, also
\* after a cancellation that failed; it raises nothing; it returns the
\* orders whose cancellation succeeded, and only them
C28_CancelAll ==
    exec_call.op = "cancel_all_orders" =>
        LET targets == Targets(exec_call.listed, exec_call.instrument) IN
        IF ~IsNone(exec_call.raised)
        THEN Attempted(exec_call.log) = <<>>
        ELSE /\ Attempted(exec_call.log) = [i \in 1..Len(targets) |-> targets[i].orderId]
             /\ Val(exec_call.ret) = CancelledOf(targets, exec_call.outcomes, 1)

\* of two working orders of the instrument given, the cancellation of the
\* first one failed and the second one was cancelled and returned
C28_Witness ==
    /\ exec_call.op = "cancel_all_orders"
    /\ ~IsNone(exec_call.instrument)
    /\ Len(exec_call.listed) = 2
    /\ \A i \in 1..2 : exec_call.listed[i].instrument = Val(exec_call.instrument)
    /\ exec_call.outcomes[1] # "cancelled"
    /\ Val(exec_call.ret) = <<[exec_call.listed[2] EXCEPT !.state = "CANCELLED"]>>

----------------------------------------------------------------------------
(* Properties of the orchestrator's life cycle *)

\* C16: the orchestrator starts in replay mode; only the replay-complete
\* notification leaves replay mode; once in live mode no step (bar,
\* notification, start, stop, end of the feed loop) returns to replay mode
C16_OneWay ==
    /\ orch.replay_mode
    /\ [][/\ ~orch.replay_mode => ~orch'.replay_mode
          /\ orch.replay_mode /\ ~orch'.replay_mode
               => orch_trace' = <<[ev |-> "set_live_mode"]>>
          /\ orch_trace' = <<[ev |-> "set_live_mode"]>> => ~orch'.replay_mode]_vars

\* the orchestrator is in live mode and stop has just been called
C16_Witness ==
    /\ ~orch.replay_mode
    /\ TraceEvents({"final_stats"}) # {}
    /\ orch_trace[1].ev = "feed_stop"

\* C32: in every state of the orchestrator, whatever bar arrives and
\* whatever the decision units and the order manager do with it,
\* on_1min_bar in replay mode and in live mode leaves the same aggregators
\* and decision units, makes the same calls in the same order and ends the
\* same way
C32_ReplayAsLive ==
    \A sym \in FeedSymbols, sh \in OrchBarShapes :
    \A choice \in Choices(orch, sym) :
    \A bar \in {MkBar(sym, OrchMinTime + 1, sh)} :
    \A replay \in {on_1min_bar([orch EXCEPT !.replay_mode = TRUE], bar, choice)} :
    \A live \in {on_1min_bar([orch EXCEPT !.replay_mode = FALSE], bar, choice)} :
        /\ replay.trace = live.trace
        /\ replay.raised = live.raised
        /\ [replay.self EXCEPT !.replay_mode = FALSE] = live.self

\* a bar delivered in replay mode has made a decision unit emit an entry
\* signal and the order was sent to the order manager
C32_Witness ==
    /\ orch.replay_mode
    /\ ~orch.dry_run
    /\ TraceEvents({"submit_market_order"}) # {}

\* C17: after every call of stop, direct or from start, no exception has
\* left it, the orchestrator is not running, the feed is stopped, the call
\* ended with the snapshot of the state it left, and a further call of stop
\* changes nothing
C17_StopIdempotent ==
    TraceEvents({"feed_stop"}) # {} =>
        /\ TraceEvents({"raised"}) = {}
        /\ ~orch.is_running
        /\ ~orch.feed.is_running
        /\ orch_trace[Len(orch_trace)] = _print_final_stats(orch)
        /\ \A terminate_ok \in BOOLEAN :
             /\ stop(orch, terminate_ok).self = orch
             /\ ~stop(orch, terminate_ok).raised
             /\ stop(orch, terminate_ok).trace[2] = _print_final_stats(orch)

\* stop has just been called on an orchestrator whose feed had a client and
\* whose units and aggregators had received bars
C17_Witness ==
    /\ orch_trace # <<>>
    /\ orch_trace[1].ev = "feed_stop"
    /\ ~IsNone(orch.feed.client)
    /\ \E sym \in DOMAIN orch.aggregators : \E tf \in DOMAIN orch.aggregators[sym] :
         orch.aggregators[sym][tf].bars_in_period # <<>>

\* the timeframes of the aggregators the call in the trace has fed
FedTimeframes == {orch_trace[i].timeframe : i \in TraceEvents({"add_bar"})}

\* C39: whenever start has returned (the record loop of the feed has ended,
\* or the feed failed before it and start logged the error), is_running of
\* the orchestrator is false; and when the orchestrator was still running
\* before start returned, the return has emitted the final status snapshot
StartReturned == TraceEvents({"feed_end", "feed_error"}) # {}

C39_StartReturns ==
    /\ [](StartReturned => ~orch.is_running)
    /\ [][(/\ orch.is_running
           /\ \E i \in 1..Len(orch_trace') : orch_trace'[i].ev \in {"feed_end", "feed_error"})
          => \E i \in 1..Len(orch_trace') : orch_trace'[i].ev = "final_stats"]_vars

\* C31: when a termination signal arrives while a bar is processed, every
\* aggregator of the bar's symbol has received the bar before the process
\* exits (the call chain of the bar is completed), and a bar is delivered
\* to on_1min_bar only while the feed's running flag is set
C31_Cooperative ==
    /\ []((/\ Exited
           /\ ~IsNone(orch_trace[1].bar))
          => FedTimeframes = DOMAIN orch.aggregators[Val(orch_trace[1].bar).symbol])
    /\ [][(\E i \in 1..Len(orch_trace') : orch_trace'[i].ev \in {"add_bar", "untracked"})
            => orch.feed.is_running]_vars

----------------------------------------------------------------------------
(* Properties of the Rate Limiter *)

\* C7: in every reachable state the token count is within [0, burst_size]
C7_Claim ==
    /\ rl.tokens >= 0
    /\ rl.tokens <= Whole(rl, rl.burst_size)

\* C8: from a full bucket and with no time elapsing, the acquires of size 1
\* number 1..burst_size succeed and every later one fails; once
\* period_seconds/max_requests has elapsed the next acquire of size 1
\* succeeds, and, when exactly that much has elapsed, the one after it fails
C8_Burst ==
    /\ rl_scen.phase = "burst" => (rl_call.ret <=> rl_scen.k <= rl.burst_size)
    /\ rl_scen.phase = "one" => rl_call.ret
    /\ rl_scen.phase = "after" => ~rl_call.ret

\* the whole scenario has run: burst, failed acquire, refill of one token,
\* one more success, then failure
C8_Witness == rl_scen.phase = "after"

----------------------------------------------------------------------------
(* Properties of the Execution layer *)

\* the orders a handler handed to the client, in order
SubmitCalls(log) == SelectSeq(log, LAMBDA e : e.call = "submit_order")

\* the open positions of the base symbol of a name in a report, in order
OpenPositions(report, instrument) ==
    SelectSeq(report, LAMBDA p : /\ upper(p.instrument[1]) = upper(instrument[1])
                                 /\ p.quantity # 0)

\* C9: when the venue has answered flatten_position's request for the
\* positions: if it lists an open position of the instrument's base symbol,
\* of quantity q, exactly one order is submitted, a market order on that
\* position's name, SELL q if q > 0 and BUY -q if q < 0; if it lists none,
\* the call raises and no order is submitted
C9_Flatten ==
    (exec_call.op = "flatten_position" /\ Len(exec_call.reports) = 1) =>
        LET open == OpenPositions(exec_call.reports[1], exec_call.instrument)
            submitted == SubmitCalls(exec_call.log)
        IN IF open = <<>>
           THEN ~IsNone(exec_call.raised) /\ submitted = <<>>
           ELSE /\ Len(submitted) = 1
                /\ submitted[1].request.orderType = "MARKET"
                /\ submitted[1].request.instrument = open[1].instrument
                /\ open[1].quantity > 0 =>
                     /\ submitted[1].request.action = "SELL"
                     /\ submitted[1].request.quantity = open[1].quantity
                /\ open[1].quantity < 0 =>
                     /\ submitted[1].request.action = "BUY"
                     /\ submitted[1].request.quantity = 0 - open[1].quantity

\* a short position listed under another name of the same base symbol, after
\* a closed one, was bought back
C9_Witness ==
    /\ exec_call.op = "flatten_position"
    /\ Len(exec_call.reports) = 1
    /\ Len(exec_call.reports[1]) = 2
    /\ exec_call.reports[1][1].quantity = 0
    /\ exec_call.reports[1][2].instrument # exec_call.instrument
    /\ Len(SubmitCalls(exec_call.log)) = 1
    /\ SubmitCalls(exec_call.log)[1].request.action = "BUY"
    /\ ~IsNone(exec_call.ret)

\* the quantity check_existing_position found: that of the first position
\* listed under the signal's instrument name, None when there is none
ExistingQuantity(report, instrument) ==
    LET same == SelectSeq(report, LAMBDA p : p.instrument = instrument)
    IN IF same = <<>> THEN None ELSE Some(same[1].quantity)

\* the flatten_position calls a handler made, in order
FlattenCalls(log) == SelectSeq(log, LAMBDA e : e.call = "flatten_position")

\* C10: when the venue has answered the position check of should_enter_trade
\* for an entry signal: flat gives True; an existing position in the
\* signal's direction gives False; one in the opposite direction gives False
\* without allow_reversals, and with allow_reversals a flatten_position call
\* for the signal's instrument is made and the call returns, if it returns,
\* True
C10_ShouldEnter ==
    (/\ exec_call.op = "should_enter_trade"
     /\ exec_call.signal_type \in {"LONG_ENTRY", "SHORT_ENTRY"}
     /\ Len(exec_call.reports) >= 1) =>
        LET qty == ExistingQuantity(exec_call.reports[1], exec_call.instrument)
            flat == IsNone(qty) \/ Val(qty) = 0
            long == ~flat /\ Val(qty) > 0
            same_direction == IF long THEN exec_call.signal_type = "LONG_ENTRY"
                              ELSE exec_call.signal_type = "SHORT_ENTRY"
            flattens == FlattenCalls(exec_call.log)
        IN /\ flat => exec_call.ret = Some(TRUE)
           /\ (~flat /\ same_direction) => exec_call.ret = Some(FALSE)
           /\ (~flat /\ ~same_direction /\ ~exec_call.allow_reversals) =>
                  exec_call.ret = Some(FALSE)
           /\ (~flat /\ ~same_direction /\ exec_call.allow_reversals) =>
                  /\ Len(flattens) = 1
                  /\ flattens[1].request.instrument = exec_call.instrument
                  /\ exec_call.ret \in {None, Some(TRUE)}
                  /\ IsNone(exec_call.ret) <=> ~IsNone(exec_call.raised)

\* a reversal: long, short entry, allow_reversals, the position was sold and
\* True returned
C10_Witness ==
    /\ exec_call.op = "should_enter_trade"
    /\ exec_call.signal_type = "SHORT_ENTRY"
    /\ exec_call.allow_reversals
    /\ Len(exec_call.reports) = 2
    /\ ExistingQuantity(exec_call.reports[1], exec_call.instrument) = Some(3)
    /\ Len(FlattenCalls(exec_call.log)) = 1
    /\ Len(SubmitCalls(exec_call.log)) = 1
    /\ exec_call.ret = Some(TRUE)

----------------------------------------------------------------------------
(* Properties of the client's transport *)

Log == client_call.log

LogEvents(kinds) == {i \in 1..Len(Log) : Log[i].ev \in kinds}

\* the attempts of the decorated method the caller called
OwnAttempts == {i \in LogEvents({"attempt"}) : Log[i].op = client_call.op}

IsRateLimit(raised) == ~IsNone(raised) /\ Val(raised).type = "RateLimitError"

\* C12: a finished venue call all of whose attempts failed with a rate-limit
\* error was attempted 3 times with the fixed delay after each attempt but
\* the last, and the caller gets the rate-limit error; an attempt that fails
\* with any other error is the last one, and the caller gets that error
C12_Claim ==
    client_call.phase = "done" =>
        /\ (\A i \in OwnAttempts : IsRateLimit(Log[i].error)) =>
              /\ Cardinality(OwnAttempts) = Tries
              /\ IsRateLimit(client_call.raised)
              /\ \A i \in OwnAttempts :
                    i < Len(Log) => Log[i + 1] = [ev |-> "sleep", ticks |-> RetryDelay]
        /\ \A i \in OwnAttempts :
              ~IsNone(Log[i].error) /\ ~IsRateLimit(Log[i].error) =>
                 /\ i = Len(Log)
                 /\ client_call.raised = Log[i].error

\* a get_positions call was attempted three times, was rate limited each
\* time, by the venue or by the limiter, and ended with the RateLimitError
C12_Witness ==
    /\ client_call.phase = "done"
    /\ client_call.op = "get_positions"
    /\ Cardinality(OwnAttempts) = Tries
    /\ IsRateLimit(client_call.raised)
    /\ LogEvents({"sleep"}) # {}

\* the requests of the placement: the POST requests
Placements == {i \in LogEvents({"http"}) : Log[i].method = "POST"}

\* the request at position i of the log was answered 429
RateLimited(i) == Log[i].response.status = 429

\* C13: when the first placement request of a finished submit_order failed
\* with a rate-limit error, the placement was requested again
C13_Claim ==
    client_call.phase = "done" /\ client_call.op = "submit_order" =>
        \A i \in Placements :
            (RateLimited(i) /\ \A j \in Placements : i <= j) => Cardinality(Placements) > 1

\* C36: at every moment of a submit_order call, finished or not, at most
\* one placement request has been sent to the venue
C36_OnePlacement ==
    client_call.op = "submit_order" => Cardinality(Placements) <= 1

\* a submit_order call has ended with an error after its only placement
\* request was answered 429
C36_Witness ==
    /\ client_call.op = "submit_order"
    /\ client_call.phase = "done"
    /\ ~IsNone(client_call.raised)
    /\ \E i \in Placements : RateLimited(i)

\* C37: a finished submit_order whose placement request the venue accepted
\* (status 200, success) returns the order to the caller, whatever happened
\* to the lookup of the order that follows the acceptance
C37_AcceptedReturned ==
    (/\ client_call.op = "submit_order"
     /\ client_call.phase = "done"
     /\ \E i \in Placements : Log[i].response.status = 200 /\ Log[i].response.success)
    => /\ IsNone(client_call.raised)
       /\ ~IsNone(client_call.ret)

\* C14: every HTTP request in the log of a call comes directly after a
\* wait_for_token that returned true and took one token; a wait_for_token
\* that returned false lasted the bounded wait, is followed by no request,
\* and the attempt ends with a RateLimitError
C14_Gate ==
    /\ \A i \in LogEvents({"http"}) :
          /\ i > 1
          /\ Log[i - 1].ev = "wait_for_token"
          /\ Log[i - 1].ret
          /\ Log[i - 1].taken = Whole(api_client.rate_limiter, 1)
    /\ \A i \in LogEvents({"wait_for_token"}) :
          ~Log[i].ret =>
             /\ Log[i].taken = 0
             /\ Log[i].waited >= TokenTimeout
             /\ i < Len(Log)
             /\ Log[i + 1].ev = "attempt"
             /\ Log[i + 1].error \in
                  { Some(Error("RateLimitError", None, "")),
                    WrapOrderError(Some(Error("RateLimitError", None, ""))) }
    /\ \A i \in LogEvents({"wait_for_token"}) :
          Log[i].ret => i < Len(Log) /\ Log[i + 1].ev = "http"

\* a call in which one wait_for_token timed out, so that no request was
\* sent, and a later one succeeded after waiting, and its request was sent
C14_Witness ==
    /\ \E i \in LogEvents({"wait_for_token"}) : ~Log[i].ret
    /\ \E i \in LogEvents({"http"}) : Log[i - 1].waited > 0

\* the parsed value of Retry-After the claim describes
ParsedRetryAfter(header) ==
    IF IsNone(header) THEN None
    ELSE IF Val(header).kind \in {"int", "decimal"} THEN Some(Val(header).whole)
    ELSE None

\* the error the claim gives for a response
SurfacedError(response) ==
    CASE response.kind \in {"timeout", "connection"} -> Error("CrossTradeError", None, "")
      [] response.status = 401 -> Error("AuthenticationError", None, "")
      [] response.status = 429 -> Error("RateLimitError", ParsedRetryAfter(response.header), "")
      [] response.status = 404 -> Error("AccountNotFoundError", None, "")
      [] OTHER -> Error("CrossTradeError", None, response.text)

IsErrorResponse(response) == response.kind # "status" \/ response.status >= 400

\* C15: when the last request of a finished call was answered with an
\* error, the caller gets the error that belongs to the answer, whatever the
\* operation; a request answered 401 is the last request of the call
C15_Claim ==
    /\ client_call.phase = "done" =>
          \A i \in LogEvents({"http"}) :
             (IsErrorResponse(Log[i].response) /\ \A j \in LogEvents({"http", "wait_for_token"}) : j <= i)
               => client_call.raised = Some(SurfacedError(Log[i].response))
    /\ \A i \in LogEvents({"http"}) :
          Log[i].response.status = 401 => \A j \in LogEvents({"http"}) : j <= i

====
